---------------------------- MODULE Spec2Model ----------------------------
(***************************************************************************)
(* A model of parser/src/types/type_references.rs: the recursive-descent   *)
(* parser of type references (TypeReference::from_reader_with_config,      *)
(* generic_arguments_from_reader_sub_open_angle and                        *)
(* TypeReferenceFunctionParameters::from_reader_sub_open_parenthesis) and  *)
(* the printer (to_string_from_buffer).                                    *)
(*                                                                         *)
(* A source text is a sequence of chunks (strings).  The lexer turns it    *)
(* into tokens carrying spans, the parser turns the tokens into a tree,    *)
(* the printer turns a tree into chunks again.  Parser and printer are     *)
(* recursive operators that follow the Rust code branch by branch; the     *)
(* state machine applies them to every text (tree) of a bounded family.    *)
(***************************************************************************)
EXTENDS Integers, Sequences, FiniteSets, TLC

VARIABLES
    text,       \* the source text: a sequence of chunks
    reader,     \* the token reader handed to the parser: [toks, pos, log]
    phase,      \* "source" | "lexed" | "parsed" | "tree" | "printed" | "relexed" | "reparsed"
    parsed,     \* result of TypeReference::from_reader on `reader`
    tree,       \* the tree handed to the printer
    settings,   \* ToStringSettings: [expect_cursors |-> BOOLEAN]
    printed,    \* result of to_string_from_buffer on `tree`
    reparsed    \* result of TypeReference::from_reader on the printed text

vars == <<text, reader, phase, parsed, tree, settings, printed, reparsed>>

(***************************************************************************)
(* Small helpers.                                                          *)
(***************************************************************************)
Min(a, b) == IF a <= b THEN a ELSE b

Max(a, b) == IF a >= b THEN a ELSE b

Last(s) == s[Len(s)]

(***************************************************************************)
(* Tokens.  Token(TSXToken, Span): t is the token kind, s its payload (the *)
(* identifier, keyword, literal content or chunk), [lo, hi) its span.      *)
(***************************************************************************)
Token(t, s, lo, hi) == [t |-> t, s |-> s, lo |-> lo, hi |-> hi]

NoToken == [t |-> "None", s |-> "", lo |-> 0, hi |-> 0]

KeywordNames == {"true", "false", "readonly", "keyof", "new", "extends", "is", "infer"}

NumberTexts == {"45"}

CommentText == "/*c*/"

PunctTable ==
    ("@" :> "At") @@ ("(" :> "OpenParentheses") @@ (")" :> "CloseParentheses")
    @@ ("<" :> "OpenChevron") @@ ("[" :> "OpenBracket") @@ ("]" :> "CloseBracket")
    @@ ("." :> "Dot") @@ ("," :> "Comma") @@ (":" :> "Colon") @@ ("?:" :> "OptionalMember")
    @@ ("?" :> "QuestionMark") @@ ("..." :> "Spread") @@ ("|" :> "BitwiseOr")
    @@ ("&" :> "BitwiseAnd") @@ ("=>" :> "Arrow")

SpecialChunks == {" ", "\"", "'", "~", "${", "{", "}", ">", CommentText}

IsWord(c) == c \notin DOMAIN PunctTable /\ c \notin SpecialChunks

WordToken(w, lo) ==
    IF w \in KeywordNames THEN Token("Keyword", w, lo, lo + Len(w))
    ELSE IF w \in NumberTexts THEN Token("NumberLiteral", w, lo, lo + Len(w))
    ELSE Token("Ident", w, lo, lo + Len(w))

(***************************************************************************)
(* The lexer (an external collaborator of the parser).  It skips blanks,   *)
(* joins adjacent word chunks into one word, merges adjacent ">" into the  *)
(* shift tokens >> and >>>, and tracks template literals and braces with   *)
(* a mode stack.  An unterminated string literal ends the stream.  The     *)
(* backtick of a template literal is written "~" here.                     *)
(***************************************************************************)
RECURSIVE LexFrom(_, _, _, _)
LexFrom(src, i, off, modes) ==
    IF i > Len(src) THEN <<>>
    ELSE
    LET c == src[i]
        top == IF Len(modes) = 0 THEN "none" ELSE Last(modes)
        pop == IF Len(modes) = 0 THEN modes ELSE SubSeq(modes, 1, Len(modes) - 1)
        has(k) == i + k <= Len(src)
    IN  IF top = "tpl" THEN
            IF c = "~" THEN
                <<Token("TemplateLiteralEnd", "", off, off + 1)>> \o LexFrom(src, i + 1, off + 1, pop)
            ELSE IF c = "${" THEN
                <<Token("TemplateLiteralExpressionStart", "", off, off + 2)>>
                    \o LexFrom(src, i + 1, off + 2, Append(modes, "expr"))
            ELSE
                <<Token("TemplateLiteralChunk", c, off, off + Len(c))>>
                    \o LexFrom(src, i + 1, off + Len(c), modes)
        ELSE IF c = " " THEN LexFrom(src, i + 1, off + 1, modes)
        ELSE IF c \in {"\"", "'"} THEN
            IF has(2) /\ src[i + 2] = c THEN
                <<Token(IF c = "'" THEN "SingleQuotedStringLiteral" ELSE "DoubleQuotedStringLiteral",
                        src[i + 1], off, off + Len(src[i + 1]) + 2)>>
                    \o LexFrom(src, i + 3, off + Len(src[i + 1]) + 2, modes)
            ELSE <<>>
        ELSE IF c = "~" THEN
            <<Token("TemplateLiteralStart", "", off, off + 1)>>
                \o LexFrom(src, i + 1, off + 1, Append(modes, "tpl"))
        ELSE IF c = "{" THEN
            <<Token("OpenBrace", "", off, off + 1)>> \o LexFrom(src, i + 1, off + 1, Append(modes, "brace"))
        ELSE IF c = "}" THEN
            IF top = "expr" THEN
                <<Token("TemplateLiteralExpressionEnd", "", off, off + 1)>> \o LexFrom(src, i + 1, off + 1, pop)
            ELSE
                <<Token("CloseBrace", "", off, off + 1)>>
                    \o LexFrom(src, i + 1, off + 1, IF top = "brace" THEN pop ELSE modes)
        ELSE IF c = ">" THEN
            IF has(2) /\ src[i + 1] = ">" /\ src[i + 2] = ">" THEN
                <<Token("BitwiseShiftRightUnsigned", "", off, off + 3)>> \o LexFrom(src, i + 3, off + 3, modes)
            ELSE IF has(1) /\ src[i + 1] = ">" THEN
                <<Token("BitwiseShiftRight", "", off, off + 2)>> \o LexFrom(src, i + 2, off + 2, modes)
            ELSE
                <<Token("CloseChevron", "", off, off + 1)>> \o LexFrom(src, i + 1, off + 1, modes)
        ELSE IF c = CommentText THEN
            <<Token("MultiLineComment", "c", off, off + Len(c))>> \o LexFrom(src, i + 1, off + Len(c), modes)
        ELSE IF c \in DOMAIN PunctTable THEN
            <<Token(PunctTable[c], "", off, off + Len(c))>> \o LexFrom(src, i + 1, off + Len(c), modes)
        ELSE IF has(1) /\ IsWord(src[i + 1]) THEN
            \* two word chunks with nothing between them are one word
            LexFrom([src EXCEPT ![i + 1] = c \o src[i + 1]], i + 1, off, modes)
        ELSE <<WordToken(c, off)>> \o LexFrom(src, i + 1, off + Len(c), modes)

Lex(src) == LexFrom(src, 1, 0, <<>>)

RECURSIVE TextLen(_)
TextLen(src) == IF src = <<>> THEN 0 ELSE Len(src[1]) + TextLen(Tail(src))

EOS(src) == Token("EOS", "", TextLen(src), TextLen(src))

(***************************************************************************)
(* The token reader (TokenReader<TSXToken, Span>).  pos is the consumption *)
(* point: toks[pos] is the next unread token.  log is a history of the     *)
(* closing spans returned by the generic argument parser and of the errors *)
(* raised.                                                                 *)
(***************************************************************************)
NewReader(toks) == [toks |-> toks, pos |-> 1, log |-> <<>>]

peek_n(r, n) == IF r.pos + n <= Len(r.toks) THEN r.toks[r.pos + n] ELSE NoToken

peek(r) == IF r.pos <= Len(r.toks) THEN r.toks[r.pos] ELSE NoToken

IsSome(tok) == tok.t # "None"

\* the reader after next(): the consumption point moves one token on
next(r) == IF r.pos <= Len(r.toks) THEN [r EXCEPT !.pos = @ + 1] ELSE r

\* peek_mut + assignment through the reference: the upcoming token replaced in place
peek_mut_set(r, tok) == [r EXCEPT !.toks[r.pos] = tok]

\* history: the generic argument parser returned closing span `close`, having
\* found the token `tok` upcoming (ev "split" or "close"), or an error of kind
\* ev was raised on the token `tok`; `left` is the token upcoming at that point
Logged(r, ev, close, tok) ==
    [r EXCEPT !.log = Append(@, [ev |-> ev, close |-> close, tok |-> tok, left |-> peek(r)])]


(***************************************************************************)
(* Spans (source_map::Span) and tree nodes.  Every node of a tree is a     *)
(* record [tag, s, kids, lo, hi]: the variant, its string payload, its     *)
(* children in order, and the span it stores (0, 0 when it stores none).   *)
(***************************************************************************)
Span(lo, hi) == [lo |-> lo, hi |-> hi]

SpanOf(x) == Span(x.lo, x.hi)

union(a, b) == Span(Min(a.lo, b.lo), Max(a.hi, b.hi))

Node(tag, s, kids, sp) == [tag |-> tag, s |-> s, kids |-> kids, lo |-> sp.lo, hi |-> sp.hi]

NoSpan == Span(0, 0)

None == Node("None", "", <<>>, NoSpan)

Some(x) == Node("Some", "", <<x>>, NoSpan)

List(tag, items) == Node(tag, "", items, NoSpan)

\* TypeReferenceFunctionParameters { parameters, optional_parameters, rest_parameter, position }
Parameters(required, optional, rest, position) ==
    Node("TypeReferenceFunctionParameters", "",
         <<List("parameters", required), List("optional_parameters", optional), rest>>, position)

\* TypeReferenceFunctionParameter { decorators, name, type_reference }
Parameter(decorators, name, type_reference) ==
    Node("TypeReferenceFunctionParameter", "", <<List("decorators", decorators), name, type_reference>>, NoSpan)

\* TypeReference::FunctionLiteral { type_parameters, parameters, return_type, type_id }
FunctionLiteral(type_parameters, parameters, return_type) ==
    Node("FunctionLiteral", "", <<type_parameters, parameters, return_type>>, NoSpan)

(***************************************************************************)
(* ParseResult<T>: Ok(value), Err(ParseError) or a panic (an unwrap of     *)
(* None, panic!(), unreachable!()), each with the reader as it was left.   *)
(***************************************************************************)
NoError == [kind |-> "None", found |-> "None", lo |-> 0, hi |-> 0]

Ok(v, r) == [st |-> "Ok", v |-> v, e |-> NoError, r |-> r]

\* Err(ParseError::new(kind, position)); history: the error is raised with the
\* reader as r
Err(kind, tok, r) ==
    [st |-> "Err", v |-> None, e |-> [kind |-> kind, found |-> tok.t, lo |-> tok.lo, hi |-> tok.hi],
     r |-> Logged(r, kind, SpanOf(tok), tok)]

\* errors::parse_lexing_error(): the reader had no token where one was required
parse_lexing_error(r) == Err("LexError", NoToken, r)

\* the thread panics: why is "unwrap" (Option::unwrap on None), "panic" or "unreachable"
Panic(why, r) == [st |-> "Panic", v |-> None, e |-> [NoError EXCEPT !.kind = why], r |-> r]

IsOk(res) == res.st = "Ok"

\* Option::Some around the value of an Ok result
SomeOk(res) == IF IsOk(res) THEN Ok(Some(res.v), res.r) ELSE res

(***************************************************************************)
(* TokenReader operations that consume or look ahead.                      *)
(***************************************************************************)
\* expect_next: consumes the next token; Ok(its span) when it is `kind`
expect_next(r, kind) ==
    IF r.pos > Len(r.toks) THEN parse_lexing_error(r)
    ELSE IF r.toks[r.pos].t = kind THEN Ok(Node("Span", "", <<>>, SpanOf(r.toks[r.pos])), next(r))
    ELSE Err("UnexpectedToken", r.toks[r.pos], next(r))

\* `reader.expect_next(kind)?` after a step that may have failed
then_expect_next(res, kind) == IF IsOk(res) THEN expect_next(res.r, kind) ELSE res

\* token_as_identifier: identifiers and keywords are names
token_as_identifier(tok, r) ==
    IF tok.t \in {"Ident", "Keyword"} THEN Ok(Node("Ident", tok.s, <<>>, SpanOf(tok)), r)
    ELSE Err("ExpectedIdent", tok, r)

IsComment(tok) == tok.t \in {"Comment", "MultiLineComment"}

RECURSIVE skip_comments(_)
skip_comments(r) == IF IsComment(peek(r)) THEN skip_comments(next(r)) ELSE r

TokenAt(r, i) == IF i <= Len(r.toks) THEN r.toks[i] ELSE NoToken

RECURSIVE scan_to_first_close(_, _, _)
\* a faulty variant of scan_parentheses: the scan ends at the first `)`
scan_to_first_close(r, i, bracket_count) ==
    IF i > Len(r.toks) THEN NoToken
    ELSE IF r.toks[i].t = "CloseParentheses" THEN TokenAt(r, i + 1)
    ELSE scan_to_first_close(r, i + 1, bracket_count)

\* reader.scan(..) of the `(` branch: the token after the `)` that closes the
\* group, None when the tokens run out first.  The reader is not advanced.
RECURSIVE scan_parentheses(_, _, _)
scan_parentheses(r, i, bracket_count) ==
    IF i > Len(r.toks) THEN NoToken
    ELSE LET t == r.toks[i].t
             count == IF t = "OpenParentheses" THEN bracket_count + 1
                      ELSE IF t = "CloseParentheses" THEN bracket_count - 1
                      ELSE bracket_count
         IN  IF count = 0 THEN TokenAt(r, i + 1) ELSE scan_parentheses(r, i + 1, count)

\* reader.scan(..) of a parameter: the token after the leading pattern
RECURSIVE scan_variable_field(_, _, _)
scan_variable_field(r, i, depth) ==
    IF i > Len(r.toks) THEN NoToken
    ELSE LET t == r.toks[i].t
         IN  IF t \in {"OpenBracket", "OpenBrace", "OpenParentheses"} THEN
                 scan_variable_field(r, i + 1, depth + 1)
             ELSE IF t \in {"CloseBracket", "CloseBrace", "CloseParentheses"} THEN
                 IF depth - 1 = 0 THEN TokenAt(r, i + 1) ELSE scan_variable_field(r, i + 1, depth - 1)
             ELSE IF depth = 0 THEN TokenAt(r, i + 1)
             ELSE scan_variable_field(r, i + 1, depth)

(***************************************************************************)
(* The external parsers the type parser delegates to, in their simplest    *)
(* form: a decorator is `@name`, a generic type parameter is a name, an    *)
(* object type has no members, a binding pattern is a name or `[a, b]`.    *)
(***************************************************************************)
\* the decorator built from its name
Decorator_named(name, at_pos) ==
    IF ~IsOk(name) THEN name
    ELSE Ok(Node("Decorator", name.v.s, <<>>, union(at_pos, SpanOf(name.v))), name.r)

\* Decorator::from_reader_sub_at_symbol
Decorator_from_reader_sub_at_symbol(r, at_pos) ==
    IF ~IsSome(peek(r)) THEN parse_lexing_error(r)
    ELSE Decorator_named(token_as_identifier(peek(r), next(r)), at_pos)

\* Decorator::from_reader
Decorator_from_reader(r) ==
    IF peek(r).t = "At" THEN Decorator_from_reader_sub_at_symbol(next(r), SpanOf(peek(r)))
    ELSE expect_next(r, "At")

RECURSIVE parse_bracketed(_, _)
\* parse_bracketed: what follows one item
parse_bracketed_item(item, nodes) ==
    IF ~IsOk(item) THEN item
    ELSE LET tok == peek(item.r)
             more == Append(nodes, Node("GenericTypeConstraint", item.v.s, <<>>, NoSpan))
         IN  IF ~IsSome(tok) THEN parse_lexing_error(item.r)
             ELSE IF tok.t = "Comma" THEN parse_bracketed(next(item.r), more)
             ELSE IF tok.t = "CloseChevron" THEN Ok(List("type_parameters", more), next(item.r))
             ELSE Err("UnexpectedToken", tok, next(item.r))

\* parse_bracketed::<GenericTypeConstraint>(reader, .., None, CloseChevron)
parse_bracketed(r, nodes) ==
    IF peek(r).t = "CloseChevron" THEN Ok(List("type_parameters", nodes), next(r))
    ELSE IF ~IsSome(peek(r)) THEN parse_lexing_error(r)
    ELSE parse_bracketed_item(token_as_identifier(peek(r), next(r)), nodes)

\* parse_interface_members: leaves the reader before the closing brace
parse_interface_members(r) == Ok(List("members", <<>>), r)

RECURSIVE array_pattern(_, _)
\* the array pattern: what follows one name
array_pattern_item(name, names) ==
    IF ~IsOk(name) THEN name
    ELSE IF peek(name.r).t = "Comma" THEN array_pattern(next(name.r), Append(names, name.v))
    ELSE array_pattern(name.r, Append(names, name.v))

\* the names of an array pattern up to its `]`
array_pattern(r, names) ==
    IF ~IsSome(peek(r)) THEN parse_lexing_error(r)
    ELSE IF peek(r).t = "CloseBracket" THEN Ok(Node("VariableField::Array", "", names, NoSpan), next(r))
    ELSE array_pattern_item(token_as_identifier(peek(r), next(r)), names)

\* the name pattern built from its token
VariableField_Name(name) ==
    IF ~IsOk(name) THEN name ELSE Ok(Node("VariableField::Name", name.v.s, <<>>, SpanOf(name.v)), name.r)

\* VariableField::from_reader, at the pattern's first token
VariableField_from_token(r1) ==
    IF ~IsSome(peek(r1)) THEN parse_lexing_error(r1)
    ELSE IF peek(r1).t = "OpenBracket" THEN array_pattern(next(r1), <<>>)
    ELSE VariableField_Name(token_as_identifier(peek(r1), next(r1)))

\* <WithComment<VariableField<VariableFieldInTypeReference>>>::from_reader
VariableField_from_reader(r) == VariableField_from_token(skip_comments(r))

(***************************************************************************)
(* get_position.                                                           *)
(***************************************************************************)
RECURSIVE TypeReference_get_position(_)
TypeReference_get_position(n) ==
    IF n.tag = "FunctionLiteral" THEN
        union(SpanOf(n.kids[2]), TypeReference_get_position(n.kids[3]))
    ELSE IF n.tag = "ConstructorLiteral" THEN
        union(SpanOf(n), TypeReference_get_position(n.kids[3]))
    ELSE IF n.tag \in {"Union", "Intersection"} THEN
        union(TypeReference_get_position(n.kids[1]), TypeReference_get_position(Last(n.kids)))
    ELSE SpanOf(n)

TypeConditionResult_get_position(n) ==
    IF n.tag = "Infer" THEN SpanOf(n) ELSE TypeReference_get_position(n.kids[1])

(***************************************************************************)
(* The parser.  Each operator takes the reader and returns a ParseResult   *)
(* holding the reader as the Rust function leaves it.  A Rust loop is a    *)
(* recursive operator over the loop's variables; the statements after a    *)
(* fallible call are an operator of that call's result.                    *)
(***************************************************************************)
RECURSIVE TypeReference_from_reader_with_config(_, _)
RECURSIVE generic_arguments_from_reader_sub_open_angle(_, _, _)
RECURSIVE from_reader_sub_open_parenthesis(_, _, _, _, _)
RECURSIVE tuple_literal_loop(_, _)
RECURSIVE template_literal_loop(_, _)
RECURSIVE array_shorthand_loop(_, _)
RECURSIVE union_members_loop(_, _, _)
RECURSIVE parameter_decorators(_, _)

\* <TypeReference as ASTNode>::from_reader
TypeReference_from_reader(r) == TypeReference_from_reader_with_config(r, FALSE)

\* Self::Infer(Box::new(inferred_type), position)
TypeConditionResult_Infer(start, inferred_type) ==
    IF ~IsOk(inferred_type) THEN inferred_type
    ELSE Ok(Node("Infer", "", <<inferred_type.v>>,
                 union(SpanOf(start), TypeReference_get_position(inferred_type.v))),
            inferred_type.r)

\* .map(|ty_ref| Self::Reference(Box::new(ty_ref)))
TypeConditionResult_Reference(ty_ref) ==
    IF ~IsOk(ty_ref) THEN ty_ref ELSE Ok(Node("Reference", "", <<ty_ref.v>>, NoSpan), ty_ref.r)

\* <TypeConditionResult as ASTNode>::from_reader
TypeConditionResult_from_reader(r) ==
    IF ~IsSome(peek(r)) THEN Panic("unwrap", r)            \* reader.peek().unwrap()
    ELSE IF peek(r).t = "Keyword" /\ peek(r).s = "infer" THEN
        TypeConditionResult_Infer(peek(r), TypeReference_from_reader(next(r)))
    ELSE TypeConditionResult_Reference(TypeReference_from_reader(r))

\* Span { start: span.start, end: span.start + 1, source_id: span.source_id }
close_chevron_span(tok) == Span(tok.lo, tok.lo + 1)

\* a faulty variant of snipped: the token is retyped, its start is not moved
snipped_keeping_start(r, tok) == peek_mut_set(r, Token("CloseChevron", "", tok.lo, tok.hi))

\* a faulty variant of snipped: the token after the split one is retyped too
snipped_with_next(r, tok) ==
    [r EXCEPT !.toks[r.pos] = Token("CloseChevron", "", tok.lo + 1, tok.hi),
              !.toks[r.pos + 1] = Token("CloseChevron", "", @.lo, @.hi)]

\* `span.start += 1; *t = TSXToken::CloseChevron;` through peek_mut
snipped(r, tok) == peek_mut_set(r, Token("CloseChevron", "", tok.lo + 1, tok.hi))

\* generic_arguments_from_reader_sub_open_angle: the loop body after the
\* argument is parsed, with the arguments before it
generic_arguments_closer(argument, return_on_union_or_intersection, generic_arguments) ==
    IF ~IsOk(argument) THEN argument
    ELSE
    LET arguments == Append(generic_arguments, argument.v)
        r1 == argument.r
        tok == peek(argument.r)
    IN  IF tok.t = "BitwiseShiftRight" THEN
            Ok(Node("generic_arguments", "", arguments, close_chevron_span(tok)),
               Logged(snipped(r1, tok), "split", close_chevron_span(tok), tok))
        ELSE IF tok.t = "BitwiseShiftRightUnsigned" THEN
            Ok(Node("generic_arguments", "", arguments, close_chevron_span(tok)),
               Logged(snipped(r1, tok), "split", close_chevron_span(tok), tok))
        ELSE IF ~IsSome(tok) THEN parse_lexing_error(r1)
        ELSE IF tok.t = "Comma" THEN
            generic_arguments_from_reader_sub_open_angle(next(r1), return_on_union_or_intersection, arguments)
        ELSE IF tok.t = "CloseChevron" THEN
            Ok(Node("generic_arguments", "", arguments, SpanOf(tok)),
               Logged(next(r1), "close", SpanOf(tok), tok))
        ELSE Err("UnexpectedToken", tok, next(r1))

\* a faulty variant of generic_arguments_from_reader_sub_open_angle: every
\* argument is parsed with return_on_union_or_intersection set
generic_arguments_stopping(r, return_on_union_or_intersection, generic_arguments) ==
    generic_arguments_closer(TypeReference_from_reader_with_config(r, TRUE),
                             return_on_union_or_intersection, generic_arguments)

\* generic_arguments_from_reader_sub_open_angle: the loop, with the arguments so far
generic_arguments_from_reader_sub_open_angle(r, return_on_union_or_intersection, generic_arguments) ==
    generic_arguments_closer(TypeReference_from_reader_with_config(r, return_on_union_or_intersection),
                             return_on_union_or_intersection, generic_arguments)

\* decorators.push(Decorator::from_reader(..)?)
parameter_decorators_push(d, decorators) ==
    IF ~IsOk(d) THEN d ELSE parameter_decorators(d.r, Append(decorators, d.v))

\* the decorators in front of a parameter
parameter_decorators(r, decorators) ==
    IF peek(r).t = "At" THEN parameter_decorators_push(Decorator_from_reader(r), decorators)
    ELSE Ok(List("decorators", decorators), r)

\* the parameters built from the span of the closing parenthesis
parameters_closed(end_span, open_paren_span, parameters, optional_parameters, rest_parameter) ==
    IF ~IsOk(end_span) THEN end_span
    ELSE Ok(Parameters(parameters, optional_parameters, rest_parameter,
                       union(open_paren_span, SpanOf(end_span.v))),
            end_span.r)

\* what follows the while loop of from_reader_sub_open_parenthesis
finish_parameters(r, open_paren_span, parameters, optional_parameters, rest_parameter) ==
    parameters_closed(expect_next(r, "CloseParentheses"),
                      open_paren_span, parameters, optional_parameters, rest_parameter)

\* a faulty variant of rest_parameter_break: the loop goes on after a comma
rest_parameter_continue(type_reference, name, span, decorators, open_paren_span, parameters, optional_parameters) ==
    IF ~IsOk(type_reference) THEN type_reference
    ELSE IF peek(type_reference.r).t = "Comma" THEN
        from_reader_sub_open_parenthesis(next(type_reference.r), open_paren_span, parameters, optional_parameters,
            Some(Node("TypeReferenceSpreadFunctionParameter", name.s, <<decorators, type_reference.v>>, span)))
    ELSE finish_parameters(type_reference.r, open_paren_span, parameters, optional_parameters,
            Some(Node("TypeReferenceSpreadFunctionParameter", name.s, <<decorators, type_reference.v>>, span)))

\* the rest parameter is recorded and the loop is left
rest_parameter_break(type_reference, name, span, decorators, open_paren_span, parameters, optional_parameters) ==
    IF ~IsOk(type_reference) THEN type_reference
    ELSE finish_parameters(type_reference.r, open_paren_span, parameters, optional_parameters,
            Some(Node("TypeReferenceSpreadFunctionParameter", name.s, <<decorators, type_reference.v>>, span)))

\* the `:` and the type of a rest parameter
rest_parameter_type(name, span, decorators, open_paren_span, parameters, optional_parameters) ==
    IF ~IsOk(then_expect_next(name, "Colon")) THEN then_expect_next(name, "Colon")
    ELSE rest_parameter_break(TypeReference_from_reader(then_expect_next(name, "Colon").r),
                              name.v, span, decorators, open_paren_span, parameters, optional_parameters)

\* the rest parameter branch, the reader being after the `...` of span `span`
rest_parameter_name(r2, span, decorators, open_paren_span, parameters, optional_parameters) ==
    rest_parameter_type(IF ~IsSome(peek(r2)) THEN parse_lexing_error(r2)
                        ELSE token_as_identifier(peek(r2), next(r2)),
                        span, decorators, open_paren_span, parameters, optional_parameters)

\* the parameter is pushed; the loop goes on after a comma
parameter_push(type_reference, tok, decorators, name, open_paren_span, parameters, optional_parameters, rest_parameter) ==
    LET parameter == Parameter(decorators.kids, name, type_reference.v)
        required == IF tok.t = "Colon" THEN Append(parameters, parameter) ELSE parameters
        optional == IF tok.t = "OptionalMember" THEN Append(optional_parameters, parameter)
                    ELSE optional_parameters
    IN  IF ~IsOk(type_reference) THEN type_reference
        ELSE IF peek(type_reference.r).t = "Comma" THEN
            from_reader_sub_open_parenthesis(next(type_reference.r), open_paren_span,
                                             required, optional, rest_parameter)
        ELSE \* break
            finish_parameters(type_reference.r, open_paren_span, required, optional, rest_parameter)

\* `let is_optional = match reader.next()..` and the type of the parameter
parameter_type(name, decorators, open_paren_span, parameters, optional_parameters, rest_parameter) ==
    IF ~IsOk(name) THEN name
    ELSE IF ~IsSome(peek(name.r)) THEN parse_lexing_error(name.r)
    ELSE IF peek(name.r).t \notin {"Colon", "OptionalMember"} THEN
        Err("UnexpectedToken", peek(name.r), next(name.r))
    ELSE parameter_push(TypeReference_from_reader(next(name.r)), peek(name.r), decorators, name.v,
                        open_paren_span, parameters, optional_parameters, rest_parameter)

\* one parameter, its decorators parsed
parameter_after_decorators(decorators, open_paren_span, parameters, optional_parameters, rest_parameter) ==
    IF ~IsOk(decorators) THEN decorators
    ELSE IF peek(decorators.r).t = "Spread" THEN
        rest_parameter_name(next(decorators.r), SpanOf(peek(decorators.r)), decorators.v,
                            open_paren_span, parameters, optional_parameters)
    ELSE
        parameter_type(IF scan_variable_field(decorators.r, decorators.r.pos, 0).t \in {"Colon", "OptionalMember"}
                       THEN SomeOk(VariableField_from_reader(decorators.r))
                       ELSE Ok(None, decorators.r),
                       decorators.v, open_paren_span, parameters, optional_parameters, rest_parameter)

\* TypeReferenceFunctionParameters::from_reader_sub_open_parenthesis: the while
\* loop, with the three buckets so far
from_reader_sub_open_parenthesis(r, open_paren_span, parameters, optional_parameters, rest_parameter) ==
    IF peek(r).t = "CloseParentheses" THEN
        finish_parameters(r, open_paren_span, parameters, optional_parameters, rest_parameter)
    ELSE
        parameter_after_decorators(parameter_decorators(skip_comments(r), <<>>),
                                   open_paren_span, parameters, optional_parameters, rest_parameter)

\* Self::from_reader_sub_open_parenthesis(reader, state, settings, span)
parameters_after_open(span) ==
    IF ~IsOk(span) THEN span
    ELSE from_reader_sub_open_parenthesis(span.r, SpanOf(span.v), <<>>, <<>>, None)

\* <TypeReferenceFunctionParameters as ASTNode>::from_reader
TypeReferenceFunctionParameters_from_reader(r) == parameters_after_open(expect_next(r, "OpenParentheses"))

\* members.push(member) and the comma after it
tuple_member_push(ty, name, spread, members) ==
    LET member == Node(IF spread THEN "Spread" ELSE "NonSpread", "", <<name, ty.v>>, NoSpan)
    IN  IF ~IsOk(ty) THEN ty
        ELSE IF peek(ty.r).t = "Comma" THEN tuple_literal_loop(next(ty.r), Append(members, member))
        ELSE Ok(List("members", Append(members, member)), ty.r)

\* the type of a tuple member after its optional name
tuple_member_type(name, members) ==
    IF ~IsOk(name) THEN name
    ELSE IF peek(name.r).t = "Spread" THEN
        tuple_member_push(TypeReference_from_reader(next(name.r)), name.v, TRUE, members)
    ELSE tuple_member_push(TypeReference_from_reader(name.r), name.v, FALSE, members)

\* the name of a tuple member: the `:` after it is consumed
tuple_member_name(name) ==
    IF ~IsOk(name) THEN name ELSE Ok(Some(Node("Ident", name.v.s, <<>>, NoSpan)), next(name.r))

\* the loop of the tuple literal branch, with the members so far; Ok(members)
\* with the reader where the loop breaks
tuple_literal_loop(r, members) ==
    IF peek(r).t = "CloseBrace" THEN Ok(List("members", members), r)
    ELSE tuple_member_type(IF peek_n(r, 1).t = "Colon"
                           THEN tuple_member_name(token_as_identifier(peek(r), next(r)))
                           ELSE Ok(None, r),
                           members)

\* reader.expect_next(TemplateLiteralExpressionEnd)?; parts.push(Dynamic(..))
template_literal_dynamic(expression, parts) ==
    IF ~IsOk(then_expect_next(expression, "TemplateLiteralExpressionEnd")) THEN
        then_expect_next(expression, "TemplateLiteralExpressionEnd")
    ELSE template_literal_loop(then_expect_next(expression, "TemplateLiteralExpressionEnd").r,
                               Append(parts, Node("Dynamic", "", <<expression.v>>, NoSpan)))

\* the loop of the template literal branch, with the parts so far; Ok(parts)
\* carrying the span of the TemplateLiteralEnd token
template_literal_loop(r, parts) ==
    IF ~IsSome(peek(r)) THEN parse_lexing_error(r)
    ELSE IF peek(r).t = "TemplateLiteralChunk" THEN
        template_literal_loop(next(r), Append(parts, Node("Static", peek(r).s, <<>>, NoSpan)))
    ELSE IF peek(r).t = "TemplateLiteralExpressionStart" THEN
        template_literal_dynamic(TypeReference_from_reader(next(r)), parts)
    ELSE IF peek(r).t = "TemplateLiteralEnd" THEN Ok(Node("parts", "", parts, SpanOf(peek(r))), next(r))
    ELSE Panic("unreachable", next(r))                     \* unreachable!()

\* Self::Index(reference, indexer, position) and the loop again
array_shorthand_index(indexer, reference) ==
    IF ~IsOk(then_expect_next(indexer, "CloseBracket")) THEN then_expect_next(indexer, "CloseBracket")
    ELSE array_shorthand_loop(then_expect_next(indexer, "CloseBracket").r,
            Node("Index", "", <<reference, indexer.v>>,
                 union(TypeReference_get_position(reference),
                       SpanOf(then_expect_next(indexer, "CloseBracket").v))))

\* a faulty variant of array_shorthand_loop: an `if` for the `while`, so that
\* one `[]` is taken at most
array_shorthand_once(r, reference) ==
    IF peek(r).t # "OpenBracket" THEN Ok(reference, r)
    ELSE IF peek(next(r)).t = "CloseBracket" THEN
        Ok(Node("ArrayLiteral", "", <<reference>>,
                union(TypeReference_get_position(reference), SpanOf(peek(next(r))))),
           next(next(r)))
    ELSE array_shorthand_index(TypeReference_from_reader(next(r)), reference)

\* the `while reader.conditional_next(OpenBracket)` loop on the reference so far
array_shorthand_loop(r, reference) ==
    IF peek(r).t # "OpenBracket" THEN Ok(reference, r)
    ELSE IF peek(next(r)).t = "CloseBracket" THEN
        array_shorthand_loop(next(next(r)),
            Node("ArrayLiteral", "", <<reference>>,
                 union(TypeReference_get_position(reference), SpanOf(peek(next(r))))))
    ELSE array_shorthand_index(TypeReference_from_reader(next(r)), reference)

\* union_members.push(Self::from_reader_with_config(.., true)?)
union_members_push(member, separator, members) ==
    IF ~IsOk(member) THEN member
    ELSE union_members_loop(member.r, separator, Append(members, member.v))

\* a faulty variant of union_members_loop: a member is parsed with
\* return_on_union_or_intersection unset
union_members_unflagged(r, separator, members) ==
    IF peek(r).t # separator THEN Ok(List("members", members), r)
    ELSE union_members_push(TypeReference_from_reader_with_config(next(r), FALSE), separator, members)

\* the `while let Some(BitwiseOr) = reader.peek()` loop (BitwiseAnd for an
\* intersection), with the members so far
union_members_loop(r, separator, members) ==
    IF peek(r).t # separator THEN Ok(List("members", members), r)
    ELSE union_members_push(TypeReference_from_reader_with_config(next(r), TRUE), separator, members)

\* the value of the first `match reader.next()` of from_reader_with_config:
\* [res, returned], returned when the arm returns from the function
Continue(res) == [res |-> res, returned |-> FALSE]

Return(res) == [res |-> res, returned |-> TRUE]

\* Self::FunctionLiteral { type_parameters, parameters, return_type, .. }
function_literal(type_parameters, parameters, return_type) ==
    IF ~IsOk(return_type) THEN return_type
    ELSE Ok(FunctionLiteral(type_parameters, parameters, return_type.v), return_type.r)

\* reader.expect_next(Arrow)?; let return_type = Self::from_reader(..)?
function_literal_tail(type_parameters, parameters) ==
    IF ~IsOk(then_expect_next(parameters, "Arrow")) THEN then_expect_next(parameters, "Arrow")
    ELSE function_literal(type_parameters, parameters.v,
                          TypeReference_from_reader(then_expect_next(parameters, "Arrow").r))

\* the `<` arm: the parameters and the rest after the type parameters
generic_function_literal(type_parameters) ==
    IF ~IsOk(type_parameters) THEN type_parameters
    ELSE function_literal_tail(Some(type_parameters.v),
                               TypeReferenceFunctionParameters_from_reader(type_parameters.r))

\* Self::Decorated(decorator, Box::new(this_declaration), position)
decorated(decorator, this_declaration, pos) ==
    IF ~IsOk(this_declaration) THEN this_declaration
    ELSE Ok(Node("Decorated", "", <<decorator, this_declaration.v>>,
                 union(pos, TypeReference_get_position(this_declaration.v))),
            this_declaration.r)

\* the `@` arm after the decorator
decorated_declaration(decorator, pos) ==
    IF ~IsOk(decorator) THEN decorator
    ELSE decorated(decorator.v, TypeReference_from_reader_with_config(decorator.r, TRUE), pos)

\* Self::ParenthesizedReference(type_reference.into(), position)
parenthesized_reference(type_reference, start_position) ==
    IF ~IsOk(then_expect_next(type_reference, "CloseParentheses")) THEN
        then_expect_next(type_reference, "CloseParentheses")
    ELSE Ok(Node("ParenthesizedReference", "", <<type_reference.v>>,
                 union(start_position, SpanOf(then_expect_next(type_reference, "CloseParentheses").v))),
            then_expect_next(type_reference, "CloseParentheses").r)

\* Self::ObjectLiteral(members, TypeId::new(), position)
object_literal(members, start) ==
    IF ~IsOk(then_expect_next(members, "CloseBrace")) THEN then_expect_next(members, "CloseBrace")
    ELSE Ok(Node("ObjectLiteral", "", members.v.kids,
                 union(start, SpanOf(then_expect_next(members, "CloseBrace").v))),
            then_expect_next(members, "CloseBrace").r)

\* Self::TupleLiteral(members, TypeId::new(), start_pos.union(&end_pos))
tuple_literal(members, start_pos) ==
    IF ~IsOk(then_expect_next(members, "CloseBracket")) THEN then_expect_next(members, "CloseBracket")
    ELSE Ok(Node("TupleLiteral", "", members.v.kids,
                 union(start_pos, SpanOf(then_expect_next(members, "CloseBracket").v))),
            then_expect_next(members, "CloseBracket").r)

\* Self::TemplateLiteral(parts, start.union(&end.unwrap()))
template_literal(parts, start) ==
    IF ~IsOk(parts) THEN parts
    ELSE Ok(Node("TemplateLiteral", "", parts.v.kids, union(start, SpanOf(parts.v))), parts.r)

\* return Ok(TypeReference::Readonly(..)) and return Ok(TypeReference::KeyOf(..))
modified_reference(inner, tok) ==
    IF ~IsOk(inner) THEN inner
    ELSE Ok(Node(IF tok.s = "readonly" THEN "Readonly" ELSE "KeyOf", "", <<inner.v>>,
                 union(SpanOf(tok), TypeReference_get_position(inner.v))),
            inner.r)

\* Self::ConstructorLiteral { new_keyword, parameters, type_parameters, return_type }
constructor_literal(return_type, type_parameters, parameters, span) ==
    IF ~IsOk(return_type) THEN return_type
    ELSE Ok(Node("ConstructorLiteral", "", <<type_parameters, parameters, return_type.v>>, span),
            return_type.r)

\* the `new` arm after the parameters
constructor_literal_tail(parameters, type_parameters, span) ==
    IF ~IsOk(then_expect_next(parameters, "Arrow")) THEN then_expect_next(parameters, "Arrow")
    ELSE constructor_literal(TypeReference_from_reader(then_expect_next(parameters, "Arrow").r),
                             type_parameters, parameters.v, span)

\* the `new` arm after the optional type parameters
constructor_literal_parameters(type_parameters, span) ==
    IF ~IsOk(type_parameters) THEN type_parameters
    ELSE constructor_literal_tail(TypeReferenceFunctionParameters_from_reader(type_parameters.r),
                                  type_parameters.v, span)

\* Self::Name(name, pos)
name_reference(name) ==
    IF ~IsOk(name) THEN name ELSE Ok(Node("Name", name.v.s, <<>>, SpanOf(name.v)), name.r)

\* `let mut reference = match reader.next()..`: the arm of the token `tok`
\* just consumed
type_reference_atom(tok, r) ==
    IF tok.t = "Keyword" /\ tok.s \in {"true", "false"} THEN
        Continue(Ok(Node("BooleanLiteral", tok.s, <<>>, SpanOf(tok)), r))
    ELSE IF tok.t = "NumberLiteral" THEN
        Continue(Ok(Node("NumberLiteral", tok.s, <<>>, SpanOf(tok)), r))
    ELSE IF tok.t \in {"SingleQuotedStringLiteral", "DoubleQuotedStringLiteral"} THEN
        Continue(Ok(Node("StringLiteral", tok.s, <<>>, SpanOf(tok)), r))
    ELSE IF tok.t = "At" THEN
        Continue(decorated_declaration(Decorator_from_reader_sub_at_symbol(r, SpanOf(tok)), SpanOf(tok)))
    ELSE IF tok.t = "OpenParentheses" THEN
        IF scan_parentheses(r, r.pos, 1).t = "Arrow" THEN
            Continue(function_literal_tail(None,
                        from_reader_sub_open_parenthesis(r, SpanOf(tok), <<>>, <<>>, None)))
        ELSE Continue(parenthesized_reference(TypeReference_from_reader(r), SpanOf(tok)))
    ELSE IF tok.t = "OpenChevron" THEN
        Continue(generic_function_literal(parse_bracketed(r, <<>>)))
    ELSE IF tok.t = "OpenBrace" THEN
        Continue(object_literal(parse_interface_members(r), SpanOf(tok)))
    ELSE IF tok.t = "OpenBracket" THEN
        Continue(tuple_literal(tuple_literal_loop(r, <<>>), SpanOf(tok)))
    ELSE IF tok.t = "TemplateLiteralStart" THEN
        Continue(template_literal(template_literal_loop(r, <<>>), SpanOf(tok)))
    ELSE IF tok.t = "Keyword" /\ tok.s \in {"readonly", "keyof"} THEN
        Return(modified_reference(TypeReference_from_reader(r), tok))
    ELSE IF tok.t = "Keyword" /\ tok.s = "new" THEN
        Continue(constructor_literal_parameters(
                    IF peek(r).t = "OpenChevron" THEN SomeOk(parse_bracketed(next(r), <<>>)) ELSE Ok(None, r),
                    SpanOf(tok)))
    ELSE Continue(name_reference(token_as_identifier(tok, r)))

\* TypeReference::Conditional { condition, resolve_true, resolve_false, position }
conditional(rhs, condition, lhs) ==
    IF ~IsOk(rhs) THEN rhs
    ELSE Ok(Node("Conditional", "", <<condition, lhs, rhs.v>>,
                 union(SpanOf(condition), TypeConditionResult_get_position(rhs.v))),
            rhs.r)

\* reader.expect_next(Colon)?; let rhs = TypeConditionResult::from_reader(..)?
conditional_rhs(lhs, condition) ==
    IF ~IsOk(then_expect_next(lhs, "Colon")) THEN then_expect_next(lhs, "Colon")
    ELSE conditional(TypeConditionResult_from_reader(then_expect_next(lhs, "Colon").r), condition, lhs.v)

\* TypeCondition::Extends (TypeCondition::Is), then `?` and the first result
conditional_lhs(extends_type, reference, tok) ==
    IF ~IsOk(then_expect_next(extends_type, "QuestionMark")) THEN then_expect_next(extends_type, "QuestionMark")
    ELSE conditional_rhs(
            TypeConditionResult_from_reader(then_expect_next(extends_type, "QuestionMark").r),
            Node(IF tok.s = "extends" THEN "Extends" ELSE "Is", "", <<reference, extends_type.v>>,
                 union(TypeReference_get_position(reference), TypeReference_get_position(extends_type.v))))

\* a faulty variant of union_or_intersection: the members parsed before an
\* error are kept
union_or_intersection_recovering(members, tok) ==
    Ok(Node(IF tok.t = "BitwiseOr" THEN "Union" ELSE "Intersection", "", members.v.kids, NoSpan), members.r)

\* Ok(Self::Union(union_members)) and Ok(Self::Intersection(intersection_members))
union_or_intersection(members, tok) ==
    IF ~IsOk(members) THEN members
    ELSE Ok(Node(IF tok.t = "BitwiseOr" THEN "Union" ELSE "Intersection", "", members.v.kids, NoSpan),
            members.r)

\* a faulty variant of implicit_function_literal: the parameter is put with
\* the optional parameters
implicit_function_literal_optional(return_type, reference) ==
    function_literal(None,
                     Parameters(<<>>, <<Parameter(<<>>, None, reference)>>, None,
                                TypeReference_get_position(reference)),
                     return_type)

\* the function literal of the `=>` arm: one unnamed parameter
implicit_function_literal(return_type, reference) ==
    function_literal(None,
                     Parameters(<<Parameter(<<>>, None, reference)>>, <<>>, None,
                                TypeReference_get_position(reference)),
                     return_type)

\* `Extends, Is, Intersections & Unions or implicit function literals`: the
\* final match of from_reader_with_config, after the array shorthand loop
type_reference_continuation(arrays, return_on_union_or_intersection) ==
    IF ~IsOk(arrays) THEN arrays
    ELSE IF peek(arrays.r).t = "Keyword" /\ peek(arrays.r).s \in {"extends", "is"} THEN
        conditional_lhs(TypeReference_from_reader_with_config(next(arrays.r), TRUE), arrays.v, peek(arrays.r))
    ELSE IF peek(arrays.r).t \in {"BitwiseOr", "BitwiseAnd"} THEN
        IF return_on_union_or_intersection THEN arrays
        ELSE union_or_intersection(union_members_loop(arrays.r, peek(arrays.r).t, <<arrays.v>>),
                                   peek(arrays.r))
    ELSE IF peek(arrays.r).t = "Arrow" THEN
        implicit_function_literal(TypeReference_from_reader_with_config(next(arrays.r), TRUE), arrays.v)
    ELSE arrays

\* TypeReference::NamespacedName(name, namespace_member, position)
namespaced_name(namespace_member, reference) ==
    IF ~IsOk(namespace_member) THEN namespace_member
    ELSE Ok(Node("NamespacedName", reference.s, <<Node("Ident", namespace_member.v.s, <<>>, NoSpan)>>,
                 union(SpanOf(reference), SpanOf(namespace_member.v))),
            namespace_member.r)

\* the `.` branch, the reader being after the `.`
namespaced_name_member(r1, reference) ==
    IF reference.tag # "Name" THEN Panic("panic", r1)          \* panic!()
    ELSE IF ~IsSome(peek(r1)) THEN Panic("unwrap", r1)         \* reader.next().unwrap()
    ELSE namespaced_name(token_as_identifier(peek(r1), next(r1)), reference)

\* Self::NameWithGenericArguments(name, generic_arguments, start_span.union(&end_span))
name_with_generic_arguments(arguments, reference) ==
    IF ~IsOk(arguments) THEN arguments
    ELSE Ok(Node("NameWithGenericArguments", reference.s, arguments.v.kids,
                 union(SpanOf(reference), SpanOf(arguments.v))),
            arguments.r)

\* the `<` branch, `tok` being the `<` upcoming in r
generic_arguments_on(r, tok, reference, return_on_union_or_intersection) ==
    IF reference.tag # "Name" THEN Err("TypeArgumentsNotValidOnReference", tok, next(r))
    ELSE name_with_generic_arguments(
            generic_arguments_from_reader_sub_open_angle(next(r), return_on_union_or_intersection, <<>>),
            reference)

\* from_reader_with_config after the first match
type_reference_suffixes(atom, return_on_union_or_intersection) ==
    IF ~IsOk(atom.res) \/ atom.returned THEN atom.res
    ELSE IF peek(atom.res.r).t = "Dot" THEN namespaced_name_member(next(atom.res.r), atom.res.v)
    ELSE IF peek(atom.res.r).t = "OpenChevron" THEN
        generic_arguments_on(atom.res.r, peek(atom.res.r), atom.res.v, return_on_union_or_intersection)
    ELSE type_reference_continuation(array_shorthand_loop(atom.res.r, atom.res.v),
                                     return_on_union_or_intersection)

\* from_reader_with_config at its first token, the comments skipped
type_reference_token(r0, return_on_union_or_intersection) ==
    IF ~IsSome(peek(r0)) THEN parse_lexing_error(r0)
    ELSE type_reference_suffixes(type_reference_atom(peek(r0), next(r0)), return_on_union_or_intersection)

\* TypeReference::from_reader_with_config
TypeReference_from_reader_with_config(rd, return_on_union_or_intersection) ==
    type_reference_token(skip_comments(rd), return_on_union_or_intersection)

(***************************************************************************)
(* The printer.  A buffer is [st, buf]: the chunks pushed so far, and      *)
(* whether the printer has panicked (panic!(), unimplemented!()).          *)
(***************************************************************************)
NewBuffer == [st |-> "Ok", buf |-> <<>>]

push_str(b, chunk) == IF b.st = "Ok" THEN [b EXCEPT !.buf = Append(@, chunk)] ELSE b

Fault(b) == [b EXCEPT !.st = "Panic"]

RECURSIVE TypeReference_to_string_from_buffer(_, _, _)
RECURSIVE to_string_separated(_, _, _, _, _)
RECURSIVE parameters_to_string(_, _, _, _, _)
RECURSIVE template_parts_to_string(_, _, _, _)
RECURSIVE tuple_members_to_string(_, _, _, _)
RECURSIVE names_to_string(_, _, _)

\* `for (at_end, member) in members.iter().endiate()`: the members from the
\* i-th on, each followed by `separator` unless it is the last
to_string_separated(members, i, separator, b, st) ==
    IF i > Len(members) \/ b.st # "Ok" THEN b
    ELSE LET one == TypeReference_to_string_from_buffer(members[i], b, st)
         IN  to_string_separated(members, i + 1, separator,
                                 IF i < Len(members) THEN push_str(one, separator) ELSE one, st)

\* to_string_bracketed(nodes, (open, close), buf, ..)
to_string_bracketed(nodes, open, close, b, st) ==
    push_str(to_string_separated(nodes, 1, ", ", push_str(b, open), st), close)

names_to_string(names, i, b) ==
    IF i > Len(names) THEN b
    ELSE names_to_string(names, i + 1,
                         IF i < Len(names) THEN push_str(push_str(b, names[i].s), ", ")
                         ELSE push_str(b, names[i].s))

\* to_string_bracketed of a list of GenericTypeConstraint
type_parameters_to_string(type_parameters, b) ==
    IF type_parameters.tag = "None" THEN b
    ELSE push_str(names_to_string(type_parameters.kids[1].kids, 1, push_str(b, "<")), ">")

\* VariableField::to_string_from_buffer
VariableField_to_string_from_buffer(name, b) ==
    IF name.tag = "VariableField::Array" THEN push_str(names_to_string(name.kids, 1, push_str(b, "[")), "]")
    ELSE push_str(b, name.s)

\* Decorator::to_string_from_buffer
Decorator_to_string_from_buffer(decorator, b) == push_str(push_str(b, "@"), decorator.s)

\* one `for parameter in ...iter()` loop of the parameters' printer
parameters_to_string(parameters, i, colon, b, st) ==
    IF i > Len(parameters) \/ b.st # "Ok" THEN b
    ELSE LET parameter == parameters[i]
             name == parameter.kids[2]
             named == IF name.tag = "Some" THEN VariableField_to_string_from_buffer(name.kids[1], b) ELSE b
         IN  parameters_to_string(parameters, i + 1, colon,
                 TypeReference_to_string_from_buffer(parameter.kids[3], push_str(named, colon), st), st)

\* <TypeReferenceFunctionParameters as ASTNode>::to_string_from_buffer
TypeReferenceFunctionParameters_to_string_from_buffer(n, b, st) ==
    LET required == parameters_to_string(n.kids[1].kids, 1, ": ", b, st)
        optional == parameters_to_string(n.kids[2].kids, 1, "?: ", required, st)
        rest_parameter == n.kids[3]
    IN  IF rest_parameter.tag = "Some" THEN
            TypeReference_to_string_from_buffer(rest_parameter.kids[1].kids[2],
                push_str(push_str(optional, "..."), rest_parameter.kids[1].s), st)
        ELSE optional

\* TypeConditionResult::to_string_from_buffer
TypeConditionResult_to_string_from_buffer(n, b, st) ==
    IF n.tag = "Infer" THEN TypeReference_to_string_from_buffer(n.kids[1], push_str(b, "infer "), st)
    ELSE TypeReference_to_string_from_buffer(n.kids[1], b, st)

\* TypeCondition::to_string_from_buffer
TypeCondition_to_string_from_buffer(n, b, st) ==
    TypeReference_to_string_from_buffer(n.kids[2],
        push_str(TypeReference_to_string_from_buffer(n.kids[1], b, st),
                 IF n.tag = "Extends" THEN " extends " ELSE " is "), st)

tuple_members_to_string(members, i, b, st) ==
    IF i > Len(members) \/ b.st # "Ok" THEN b
    ELSE LET member == members[i]
             name == member.kids[1]
             named == IF name.tag = "Some" THEN push_str(push_str(b, name.kids[1].s), ": ") ELSE b
             spread == IF member.tag = "Spread" THEN push_str(named, "...") ELSE named
             ty == TypeReference_to_string_from_buffer(member.kids[2], spread, st)
         IN  tuple_members_to_string(members, i + 1, IF i < Len(members) THEN push_str(ty, ", ") ELSE ty, st)

template_parts_to_string(parts, i, b, st) ==
    IF i > Len(parts) \/ b.st # "Ok" THEN b
    ELSE LET part == parts[i]
         IN  template_parts_to_string(parts, i + 1,
                 IF part.tag = "Static" THEN push_str(b, part.s)
                 ELSE push_str(TypeReference_to_string_from_buffer(part.kids[1], push_str(b, "${"), st), "}"),
                 st)

\* a faulty variant of Cursor_to_string_from_buffer: the setting is not looked at
Cursor_to_string_unchecked(b, st) == b

\* the arm Self::Cursor(..): panic!() unless the settings expect cursors
Cursor_to_string_from_buffer(b, st) == IF ~st.expect_cursors THEN Fault(b) ELSE b

\* the arm Self::NamespacedName(..) => unimplemented!()
NamespacedName_to_string_from_buffer(n, b, st) == Fault(b)

\* a faulty variant of Index_or_KeyOf_to_string_from_buffer: some text is rendered
Index_or_KeyOf_rendered(n, b, st) == push_str(b, "keyof ")

\* the arms Self::Index(..) => unimplemented!() and Self::KeyOf(..) => unimplemented!()
Index_or_KeyOf_to_string_from_buffer(n, b, st) == Fault(b)

\* <TypeReference as ASTNode>::to_string_from_buffer
TypeReference_to_string_from_buffer(n, b, st) ==
    IF b.st # "Ok" THEN b
    ELSE IF n.tag = "Cursor" THEN Cursor_to_string_from_buffer(b, st)
    ELSE IF n.tag = "Decorated" THEN
        TypeReference_to_string_from_buffer(n.kids[2],
            push_str(Decorator_to_string_from_buffer(n.kids[1], b), " "), st)
    ELSE IF n.tag = "Name" THEN push_str(b, n.s)
    ELSE IF n.tag = "NameWithGenericArguments" THEN
        to_string_bracketed(n.kids, "<", ">", push_str(b, n.s), st)
    ELSE IF n.tag = "FunctionLiteral" THEN
        TypeReference_to_string_from_buffer(n.kids[3],
            push_str(TypeReferenceFunctionParameters_to_string_from_buffer(n.kids[2],
                         type_parameters_to_string(n.kids[1], b), st),
                     " => "), st)
    ELSE IF n.tag = "BooleanLiteral" THEN push_str(b, IF n.s = "true" THEN "true" ELSE "false")
    ELSE IF n.tag = "NumberLiteral" THEN push_str(b, n.s)
    ELSE IF n.tag = "StringLiteral" THEN push_str(push_str(push_str(b, "\""), n.s), "\"")
    ELSE IF n.tag = "Union" THEN to_string_separated(n.kids, 1, " | ", b, st)
    ELSE IF n.tag = "Intersection" THEN to_string_separated(n.kids, 1, " & ", b, st)
    ELSE IF n.tag = "NamespacedName" THEN NamespacedName_to_string_from_buffer(n, b, st)
    ELSE IF n.tag = "ObjectLiteral" THEN push_str(push_str(b, "{"), "}")
    ELSE IF n.tag = "TupleLiteral" THEN
        push_str(tuple_members_to_string(n.kids, 1, push_str(b, "["), st), "]")
    ELSE IF n.tag \in {"Index", "KeyOf"} THEN Index_or_KeyOf_to_string_from_buffer(n, b, st)
    ELSE IF n.tag = "Conditional" THEN
        TypeConditionResult_to_string_from_buffer(n.kids[3],
            push_str(TypeConditionResult_to_string_from_buffer(n.kids[2],
                         push_str(TypeCondition_to_string_from_buffer(n.kids[1], b, st), " ? "), st),
                     " : "), st)
    ELSE IF n.tag = "ArrayLiteral" THEN
        push_str(TypeReference_to_string_from_buffer(n.kids[1], b, st), "[]")
    ELSE IF n.tag = "ConstructorLiteral" THEN
        TypeReference_to_string_from_buffer(n.kids[3],
            push_str(TypeReferenceFunctionParameters_to_string_from_buffer(n.kids[2],
                         type_parameters_to_string(n.kids[1], push_str(b, "new ")), st),
                     " => "), st)
    ELSE IF n.tag = "Readonly" THEN
        TypeReference_to_string_from_buffer(n.kids[1], push_str(b, "readonly "), st)
    ELSE IF n.tag = "ParenthesizedReference" THEN
        push_str(TypeReference_to_string_from_buffer(n.kids[1], push_str(b, "("), st), ")")
    ELSE \* TemplateLiteral
        push_str(template_parts_to_string(n.kids, 1, push_str(b, "~"), st), "~")

(***************************************************************************)
(* The printed text as the lexer reads it: the printer's separators are    *)
(* cut into their blanks and their symbol.                                 *)
(***************************************************************************)
Pieces(chunk) ==
    CASE chunk = ", " -> <<",", " ">>
      [] chunk = " => " -> <<" ", "=>", " ">>
      [] chunk = " | " -> <<" ", "|", " ">>
      [] chunk = " & " -> <<" ", "&", " ">>
      [] chunk = ": " -> <<":", " ">>
      [] chunk = "?: " -> <<"?:", " ">>
      [] chunk = " ? " -> <<" ", "?", " ">>
      [] chunk = " : " -> <<" ", ":", " ">>
      [] chunk = "[]" -> <<"[", "]">>
      [] chunk = "new " -> <<"new", " ">>
      [] chunk = "readonly " -> <<"readonly", " ">>
      [] chunk = "infer " -> <<"infer", " ">>
      [] chunk = " extends " -> <<" ", "extends", " ">>
      [] chunk = " is " -> <<" ", "is", " ">>
      [] OTHER -> <<chunk>>

RECURSIVE SourceOf(_)
SourceOf(buf) == IF buf = <<>> THEN <<>> ELSE Pieces(buf[1]) \o SourceOf(Tail(buf))

(***************************************************************************)
(* Structural equality ignoring spans: the tree with every span erased.    *)
(***************************************************************************)
RECURSIVE Unspanned(_)
Unspanned(n) == [n EXCEPT !.lo = 0, !.hi = 0, !.kids = [i \in 1..Len(n.kids) |-> Unspanned(n.kids[i])]]

(***************************************************************************)
(* The source texts the parser is run on.                                  *)
(***************************************************************************)
MaxDepth == 2       \* constructs nested in one another
MaxNest == 3        \* generic argument lists nested in one another
MaxMembers == 3     \* operands of a union or an intersection
MaxSuffixes == 2    \* bracket suffixes after an atom
MaxEntries == 2     \* entries of a parameter list or a tuple
MaxTreeDepth == 2   \* constructs nested in one another in a tree handed to the printer

Wrap(pre, X, post) == {pre \o x \o post : x \in X}

RECURSIVE Repeat(_, _, _)
\* the texts x1 sep x2 sep .. xn, 1 <= n <= max, each xi of X
Repeat(X, sep, max) ==
    IF max <= 1 THEN IF max = 1 THEN X ELSE {}
    ELSE Repeat(X, sep, max - 1) \cup {s \o sep \o x : s \in Repeat(X, sep, max - 1), x \in X}

AtomTexts == {<<"T">>, <<"true">>, <<"'", "s", "'">>}

\* one more construct around (or beside) the texts of X
Constructs(X) ==
    Wrap(<<"A", "<">>, X, <<">">>) \cup Wrap(<<"A", "<">>, X, <<",", " ", "T", ">">>)
    \cup Wrap(<<>>, X, <<" ", "|", " ", "T">>) \cup Wrap(<<"T", " ", "&", " ">>, X, <<>>)
    \cup Wrap(<<>>, X, <<"[", "]">>) \cup Wrap(<<>>, X, <<"[", "T", "]">>)
    \cup Wrap(<<"(">>, X, <<")">>) \cup Wrap(<<"[", "a", ":", " ">>, X, <<"]">>)
    \cup Wrap(<<>>, X, <<" ", "=>", " ", "T">>) \cup Wrap(<<"(", "a", ":", " ">>, X, <<")", " ", "=>", " ", "T">>)
    \cup Wrap(<<"T", " ", "extends", " ", "T", " ", "?", " ">>, X, <<" ", ":", " ", "T">>)
    \cup Wrap(<<"readonly", " ">>, X, <<>>) \cup Wrap(<<"A", ".">>, X, <<>>)

RECURSIVE Composed(_)
Composed(depth) == IF depth = 0 THEN AtomTexts ELSE Composed(depth - 1) \cup Constructs(Composed(depth - 1))

\* the innermost argument lists
ArgumentTexts == {<<"T">>, <<"T", ",", " ", "T">>, <<"T", " ", "|", " ", "T">>}

RECURSIVE Nested(_)
\* A<A<..<x>>..>: up to `nest` lists, a blank or none before each closer
Nested(nest) ==
    IF nest = 0 THEN ArgumentTexts
    ELSE Nested(nest - 1)
         \cup Wrap(<<"A", "<">>, Nested(nest - 1), <<">">>)
         \cup Wrap(<<"A", "<">>, Nested(nest - 1), <<" ", ">">>)

\* two lists closed by one `>>`, three lists closed by one `>>>`
DoubleTexts == Wrap(<<"A", "<", "A", "<">>, ArgumentTexts, <<">", ">">>)

TripleTexts == Wrap(<<"A", "<", "A", "<", "A", "<">>, ArgumentTexts, <<">", ">", ">">>)

\* a generic argument list after an atom that is a name, and after one that is not
NameGenericTexts == Nested(MaxNest) \ ArgumentTexts

NonNameAtomTexts ==
    {<<"true">>, <<"45">>, <<"'", "s", "'">>, <<"(", "T", ")">>, <<"[", "T", "]">>, <<"{", "}">>}

NonNameGenericTexts == {a \o <<"<">> \o x \o <<">">> : a \in NonNameAtomTexts, x \in ArgumentTexts}

OperandTexts ==
    {<<"T">>, <<"true">>, <<"A", "<", "T", ">">>, <<"A", ".", "B">>, <<"T", "[", "]">>, <<"(", "T", ")">>,
     <<"[", "T", "]">>}

UnionTexts == Repeat(OperandTexts, <<" ", "|", " ">>, MaxMembers)

IntersectionTexts == Repeat(OperandTexts, <<" ", "&", " ">>, MaxMembers)

SuffixTexts ==
    {a \o s : a \in {<<"T">>, <<"true">>}, s \in Repeat({<<"[", "]">>, <<"[", "K", "]">>}, <<>>, MaxSuffixes)}

RestEntry == <<"...", "r", ":", " ", "T">>

AnonymousEntry == <<"T">>

EntryTexts ==
    {<<"a", ":", " ", "T">>, <<"b", "?:", " ", "T">>, AnonymousEntry, <<":", " ", "T">>, RestEntry,
     <<"@", "d", " ", "a", ":", " ", "T">>, <<"[", "a", "]", ":", " ", "T">>}

\* (entries) => T
ParameterList(entries) == <<"(">> \o entries \o <<")", " ", "=>", " ", "T">>

ParameterTexts == {ParameterList(e) : e \in Repeat(EntryTexts, <<",", " ">>, MaxEntries) \cup {<<>>}}

\* a rest parameter followed by a comma and more entries
RestFirstTexts ==
    {ParameterList(RestEntry \o <<",", " ">> \o e) : e \in Repeat(EntryTexts, <<",", " ">>, MaxEntries - 1)}

ElementTexts == {<<"T">>, <<"x", ":", " ", "T">>, <<"...", "T">>, <<"x", ":", " ", "...", "T">>}

TupleTexts == Wrap(<<"[">>, Repeat(ElementTexts, <<",", " ">>, MaxEntries) \cup {<<>>}, <<"]">>)

\* the texts of the tests of type_references.rs, and one of each construct left
TestTexts ==
    {<<"string">>, <<"\"", "string", "\"">>, <<"45">>, <<"true">>,
     <<"Array", "<", "string", ">">>, <<"Map", "<", "string", ",", " ", "number", ">">>,
     <<"Array", "<", "Array", "<", "string", ">", ">">>,
     <<"Array", "<", "Array", "<", "Array", "<", "T", ">", ">", ">">>,
     <<"string", " ", "|", " ", "number">>, <<"string", " ", "&", " ", "number">>,
     <<"[", "number", ",", " ", "x", ":", " ", "string", "]">>,
     <<"T", " ", "=>", " ", "T">>, <<"(", "string", ")", " ", "=>", " ", "number">>,
     <<"~", "test-", "${", "X", "}", "~">>,
     <<"string", "[", "]">>, <<"(", "number", " ", "|", " ", "null", ")", "[", "]">>,
     <<"string", "[", "]", "[", "]">>,
     <<"{", "}">>, <<"keyof", " ", "T">>, <<"@", "d", " ", "T">>, <<CommentText, " ", "T">>,
     <<"A", ".", "B">>,
     <<"new", " ", "(", "a", ":", " ", "T", ")", " ", "=>", " ", "T">>,
     <<"<", "T", ">", "(", "a", ":", " ", "T", ")", " ", "=>", " ", "T">>,
     <<"T", " ", "extends", " ", "T", " ", "?", " ", "T", " ", ":", " ", "T">>,
     <<"T", " ", "is", " ", "T", " ", "?", " ", "infer", " ", "T", " ", ":", " ", "T">>}

\* an atom, `=>`, a return type, and what may follow it
ArrowSugarTexts ==
    {a \o <<" ", "=>", " ">> \o b \o c :
        a \in AtomTexts \cup {<<"T", "[", "]">>}, b \in AtomTexts,
        c \in {<<>>, <<" ", "|", " ", "T">>, <<" ", "&", " ", "T">>}}

\* a union in a generic argument, in a branch of a conditional and after a
\* return type, as an operand of a union and on its own
UnionInside ==
    {<<"A", "<", "T", " ", "|", " ", "T", ">">>,
     <<"T", " ", "extends", " ", "T", " ", "?", " ", "T", " ", "|", " ", "T", " ", ":", " ", "T">>,
     <<"T", " ", "extends", " ", "T", " ", "?", " ", "T", " ", ":", " ", "T", " ", "|", " ", "T">>,
     <<"T", " ", "=>", " ", "T", " ", "|", " ", "T">>}

FlagTexts == UnionInside \cup Wrap(<<"T", " ", "|", " ">>, UnionInside, <<>>)

\* a function whose return type stops at a `|`
FunctionOperandTexts ==
    {<<"(", "a", ":", " ", "T", ")", " ", "=>", " ", "T", " ", "=>", " ", "T", " ", "|", " ", "T">>}

\* texts no type starts with, or that fail after their first token
FaultyTexts == {<<")">>, <<"true", "<", "T", ">">>, <<"T", " ", "|", " ", "]">>}

\* a faulty text in every place where the parser calls itself
ErrorTexts ==
    Constructs(FaultyTexts) \cup Wrap(<<"~", "${">>, FaultyTexts, <<"}", "~">>)
    \cup Wrap(<<"T", " ", "extends", " ">>, FaultyTexts, <<" ", "?", " ", "T", " ", ":", " ", "T">>)
    \cup Wrap(<<"T", " ", "extends", " ", "T", " ", "?", " ", "T", " ", ":", " ">>, FaultyTexts, <<>>)

Texts ==
    Composed(MaxDepth) \cup Nested(MaxNest) \cup DoubleTexts \cup TripleTexts \cup NonNameGenericTexts
    \cup UnionTexts \cup IntersectionTexts \cup SuffixTexts
    \cup ParameterTexts \cup RestFirstTexts \cup TupleTexts \cup TestTexts \cup ErrorTexts
    \cup ArrowSugarTexts \cup FlagTexts \cup FunctionOperandTexts

\* the texts whose token streams are cut short
TruncatedTexts == TestTexts \cup Composed(1)

(***************************************************************************)
(* The trees handed to the printer: an atom in every child position of     *)
(* every construct, up to MaxTreeDepth constructs deep.                    *)
(***************************************************************************)
Leaf(tag, s) == Node(tag, s, <<>>, NoSpan)

Tree(tag, kids) == Node(tag, "", kids, NoSpan)

NameT == Leaf("Name", "T")

TreeAtoms ==
    {NameT, Leaf("Cursor", ""), Node("NamespacedName", "A", <<Leaf("Ident", "B")>>, NoSpan),
     Tree("KeyOf", <<NameT>>), Tree("Index", <<NameT, NameT>>)}

OneParameter(x) == Parameters(<<Parameter(<<>>, Some(Leaf("VariableField::Name", "a")), x)>>, <<>>, None, NoSpan)

OptionalParameter(x) == Parameters(<<>>, <<Parameter(<<>>, None, x)>>, None, NoSpan)

RestParameter(x) ==
    Parameters(<<>>, <<>>, Some(Node("TypeReferenceSpreadFunctionParameter", "r", <<List("decorators", <<>>), x>>,
                                     NoSpan)), NoSpan)

\* the tree x in one child position of one more construct
TreeConstructs(x) ==
    {Tree("Union", <<x, NameT>>), Tree("Intersection", <<NameT, x>>),
     Node("NameWithGenericArguments", "A", <<NameT, x>>, NoSpan),
     Tree("ArrayLiteral", <<x>>), Tree("ParenthesizedReference", <<x>>), Tree("Readonly", <<x>>),
     Tree("TupleLiteral", <<Tree("NonSpread", <<Some(Leaf("Ident", "a")), x>>), Tree("Spread", <<None, NameT>>)>>),
     Tree("TemplateLiteral", <<Leaf("Static", "s"), Tree("Dynamic", <<x>>)>>),
     Tree("Decorated", <<Leaf("Decorator", "d"), x>>),
     FunctionLiteral(None, OneParameter(x), NameT), FunctionLiteral(None, OptionalParameter(x), NameT),
     FunctionLiteral(None, RestParameter(x), NameT), FunctionLiteral(None, OneParameter(NameT), x),
     Tree("ConstructorLiteral", <<None, OneParameter(NameT), x>>),
     Tree("Conditional", <<Tree("Extends", <<x, NameT>>), Tree("Reference", <<NameT>>), Tree("Reference", <<NameT>>)>>),
     Tree("Conditional", <<Tree("Is", <<NameT, x>>), Tree("Reference", <<NameT>>), Tree("Reference", <<NameT>>)>>),
     Tree("Conditional", <<Tree("Extends", <<NameT, NameT>>), Tree("Infer", <<x>>), Tree("Reference", <<NameT>>)>>),
     Tree("Conditional", <<Tree("Extends", <<NameT, NameT>>), Tree("Reference", <<NameT>>), Tree("Reference", <<x>>)>>)}

RECURSIVE Trees(_)
Trees(depth) ==
    IF depth = 0 THEN TreeAtoms
    ELSE Trees(depth - 1) \cup UNION {TreeConstructs(x) : x \in Trees(depth - 1)}

\* two members of which each may be what the printer cannot print
TreePairs(x) ==
    {Tree("Union", <<x, y>>) : y \in TreeAtoms} \cup {Tree("Intersection", <<y, x>>) : y \in TreeAtoms}

\* the tree x, and x in one more construct
TreesAround(x) == {x} \cup TreeConstructs(x) \cup TreePairs(x)

(***************************************************************************)
(* The state machine: a text is lexed, parsed, printed, lexed and parsed   *)
(* again.                                                                  *)
(***************************************************************************)
NoResult == [st |-> "None", v |-> None, e |-> NoError, r |-> NewReader(<<>>)]

DefaultSettings == [expect_cursors |-> FALSE]

\* the reader on the tokens of a whole text, EOS last
ReaderOn(src) == NewReader(Append(Lex(src), EOS(src)))

InitText(src) ==
    /\ text = src
    /\ phase = "source"
    /\ reader = NewReader(<<>>)
    /\ parsed = NoResult
    /\ tree = None
    /\ settings = DefaultSettings
    /\ printed = NewBuffer
    /\ reparsed = NoResult

Init == \E src \in Texts : InitText(src)

\* the lexer reads the whole text and ends the stream with EOS
LexAll ==
    /\ phase = "source"
    /\ phase' = "lexed"
    /\ reader' = ReaderOn(text)
    /\ UNCHANGED <<text, parsed, tree, settings, printed, reparsed>>

\* TypeReference::from_reader
Parse ==
    /\ phase = "lexed"
    /\ phase' = "parsed"
    /\ parsed' = TypeReference_from_reader(reader)
    /\ reader' = parsed'.r
    /\ UNCHANGED <<text, tree, settings, printed, reparsed>>

\* to_string_from_buffer on the parsed tree
Unparse ==
    /\ phase = "parsed"
    /\ IsOk(parsed)
    /\ phase' = "printed"
    /\ tree' = parsed.v
    /\ printed' = TypeReference_to_string_from_buffer(parsed.v, NewBuffer, settings)
    /\ UNCHANGED <<text, reader, parsed, settings, reparsed>>

\* the printed text is lexed and parsed again
Reparse ==
    /\ phase = "printed"
    /\ printed.st = "Ok"
    /\ phase' = "reparsed"
    /\ reparsed' = TypeReference_from_reader(ReaderOn(SourceOf(printed.buf)))
    /\ UNCHANGED <<text, reader, parsed, tree, settings, printed>>

Next == LexAll \/ Parse \/ Unparse \/ Reparse

Spec == Init /\ [][Next]_vars

(***************************************************************************)
(* The parser on a token stream that ends early: the lexer stopped after n *)
(* tokens and sent no EOS, so the reader runs out of tokens.               *)
(***************************************************************************)
InitTruncated == \E src \in TruncatedTexts : InitText(src)

LexSome ==
    /\ phase = "source"
    /\ phase' = "lexed"
    /\ \E n \in 0..Len(Lex(text)) : reader' = NewReader(SubSeq(Lex(text), 1, n))
    /\ UNCHANGED <<text, parsed, tree, settings, printed, reparsed>>

NextTruncated == LexSome \/ Parse

SpecTruncated == InitTruncated /\ [][NextTruncated]_vars

(***************************************************************************)
(* The printer on the trees of up to MaxTreeDepth constructs, under both   *)
(* settings.                                                               *)
(***************************************************************************)
InitTree(t, st) ==
    /\ text = <<>>
    /\ phase = "tree"
    /\ reader = NewReader(<<>>)
    /\ parsed = NoResult
    /\ tree = t
    /\ settings = st
    /\ printed = NewBuffer
    /\ reparsed = NoResult

InitPrinter ==
    \E x \in Trees(MaxTreeDepth - 1), expect_cursors \in BOOLEAN :
        \E t \in TreesAround(x) : InitTree(t, [expect_cursors |-> expect_cursors])

\* to_string_from_buffer on the tree
UnparseTree ==
    /\ phase = "tree"
    /\ phase' = "printed"
    /\ printed' = TypeReference_to_string_from_buffer(tree, NewBuffer, settings)
    /\ UNCHANGED <<text, reader, parsed, tree, settings, reparsed>>

NextPrinter == UnparseTree

SpecPrinter == InitPrinter /\ [][NextPrinter]_vars

(***************************************************************************)
(* Properties.                                                             *)
(***************************************************************************)
Width(sp) == sp.hi - sp.lo

Disjoint(a, b) == a.hi <= b.lo \/ b.hi <= a.lo

Count(s, x) == Cardinality({i \in DOMAIN s : s[i] = x})

\* the offset in the text of its first chunk x
OffsetOf(src, x) == TextLen(SubSeq(src, 1, (CHOOSE i \in DOMAIN src : src[i] = x /\ \A j \in 1..(i - 1) : src[j] # x) - 1))

RECURSIVE HasTag(_, _)
\* some node of the tree n has a tag of tags
HasTag(n, tags) == n.tag \in tags \/ \E i \in DOMAIN n.kids : HasTag(n.kids[i], tags)

\* the members follow one another in the source
InSourceOrder(kids) ==
    \A i \in 1..(Len(kids) - 1) :
        TypeReference_get_position(kids[i]).hi <= TypeReference_get_position(kids[i + 1]).lo

\* the parser stopped at the end of the source: only EOS is unread
AllConsumed(r) == peek(r).t = "EOS"

ArrayArrayString == <<"Array", "<", "Array", "<", "string", ">", ">">>

ArrayArrayArrayT == <<"Array", "<", "Array", "<", "Array", "<", "T", ">", ">", ">">>

\* C1: a name followed by three nested generic argument lists whose closers
\* are one `>>>` token parses: the token is split twice, each of the three
\* lists is closed by its own closer, and the three closing spans are one
\* character wide and pairwise disjoint.
C1_TripleCloserParses ==
    (phase = "parsed" /\ text \in TripleTexts \cup {ArrayArrayArrayT}) =>
        /\ IsOk(parsed)
        /\ Len(reader.log) = 3
        /\ reader.log[1].ev = "split" /\ reader.log[2].ev = "split" /\ reader.log[3].ev = "close"
        /\ \A i \in 1..3 : Width(reader.log[i].close) = 1
        /\ \A i, j \in 1..3 : i < j => Disjoint(reader.log[i].close, reader.log[j].close)

\* the generic argument parser returned by splitting a `>>` token
SplitOfShiftRight(e) == e.ev = "split" /\ e.tok.t = "BitwiseShiftRight"

\* C2: when a generic argument list has parsed an argument and the upcoming
\* token is `>>` with span [s, s+2), the list returns the closing span
\* [s, s+1) and leaves a `>` with span [s+1, s+2) upcoming, which the
\* enclosing list consumes as its closer; a two-level nesting closed by `>>`
\* parses to a generic instantiation whose only argument is a generic
\* instantiation ending one character before it, with no token left.
C2_ShiftRightSplit ==
    phase = "parsed" =>
        /\ \A i \in DOMAIN reader.log :
              SplitOfShiftRight(reader.log[i]) =>
                  /\ Width(reader.log[i].tok) = 2
                  /\ reader.log[i].close = Span(reader.log[i].tok.lo, reader.log[i].tok.lo + 1)
                  /\ reader.log[i].left =
                        Token("CloseChevron", "", reader.log[i].tok.lo + 1, reader.log[i].tok.lo + 2)
                  /\ i < Len(reader.log) =>
                        /\ reader.log[i + 1].ev = "close"
                        /\ reader.log[i + 1].tok = reader.log[i].left
                        /\ reader.log[i + 1].close = SpanOf(reader.log[i].left)
        /\ text \in DoubleTexts \cup {ArrayArrayString} =>
              /\ IsOk(parsed)
              /\ parsed.v.tag = "NameWithGenericArguments" /\ Len(parsed.v.kids) = 1
              /\ parsed.v.kids[1].tag = "NameWithGenericArguments"
              /\ parsed.v.kids[1].hi = parsed.v.hi - 1
              /\ parsed.v.hi = TextLen(text)
              /\ Len(reader.log) = 2 /\ SplitOfShiftRight(reader.log[1])
              /\ AllConsumed(reader)

C2_Witness ==
    /\ phase = "parsed" /\ text = ArrayArrayString /\ IsOk(parsed)
    /\ Len(reader.log) = 2 /\ SplitOfShiftRight(reader.log[1]) /\ reader.log[2].ev = "close"

\* the tags of the trees of identifiers, literals, unions, intersections,
\* generic instantiations, array shorthand, tuples and arrow sugar
RoundTripTags ==
    {"Name", "BooleanLiteral", "NumberLiteral", "StringLiteral", "Union", "Intersection",
     "NameWithGenericArguments", "ArrayLiteral", "TupleLiteral", "NonSpread", "Spread", "Ident",
     "FunctionLiteral", "TypeReferenceFunctionParameters", "TypeReferenceFunctionParameter",
     "parameters", "optional_parameters", "decorators", "Some", "None"}

RECURSIVE OnlyTags(_, _)
OnlyTags(n, tags) == n.tag \in tags /\ \A i \in DOMAIN n.kids : OnlyTags(n.kids[i], tags)

\* C3: round trip: for a text of identifiers, literals, unions, intersections,
\* generic instantiations, array shorthand, tuples and arrow sugar that parses,
\* printing the tree completes, and parsing the printed text succeeds with a
\* tree equal to the first when spans are ignored.
C3_RoundTrip ==
    (phase \in {"printed", "reparsed"} /\ OnlyTags(parsed.v, RoundTripTags)
        /\ Count(text, "(") = 0 /\ AllConsumed(parsed.r)) =>
        /\ printed.st = "Ok"
        /\ phase = "reparsed" => IsOk(reparsed) /\ Unspanned(reparsed.v) = Unspanned(parsed.v)

\* C4: with the stop flag unset, an atom followed by `|` parses to a Union of
\* the atom and the operands after each `|`, in source order, every `|`
\* consumed; n operands give a Union of exactly n members; `&` gives an
\* Intersection likewise.
C4_UnionAfterAtom ==
    (phase = "parsed" /\ text \in UnionTexts \cup IntersectionTexts
        /\ Count(text, "|") + Count(text, "&") >= 1) =>
        /\ IsOk(parsed)
        /\ parsed.v.tag = (IF Count(text, "|") >= 1 THEN "Union" ELSE "Intersection")
        /\ Len(parsed.v.kids) = Count(text, "|") + Count(text, "&") + 1
        /\ TypeReference_get_position(parsed.v.kids[1]).lo = 0
        /\ InSourceOrder(parsed.v.kids)
        /\ AllConsumed(reader)

\* C5 as stated: a parameter list in which a rest parameter is followed by a
\* comma and further entries is accepted.
C5_AcceptsAfterRest == (phase = "parsed" /\ text \in RestFirstTexts) => IsOk(parsed)

\* C5, amended: a parameter list in which a rest parameter is followed by a
\* comma and further entries is rejected: the parser returns UnexpectedToken
\* at that comma, where it requires the closing parenthesis, and no tree.
C5_RejectsAfterRest ==
    (phase = "parsed" /\ text \in RestFirstTexts) =>
        /\ parsed.st = "Err" /\ parsed.e.kind = "UnexpectedToken" /\ parsed.e.found = "Comma"
        /\ parsed.e.lo = OffsetOf(text, ",")
        /\ parsed.v = None

C5_Witness ==
    /\ phase = "parsed" /\ parsed.st = "Err"
    /\ text = ParameterList(RestEntry \o <<",", " ", "a", ":", " ", "T">>)

StringToNumber == <<"(", "string", ")", " ", "=>", " ", "number">>

\* C6: a parameter list entry after whose leading pattern the lookahead finds
\* neither `:` nor `?:` parses as an anonymous parameter: the parse succeeds,
\* the parameter has no name and its type is the type written there.
C6_AnonymousParameter ==
    (phase = "parsed" /\ text \in {ParameterList(AnonymousEntry), StringToNumber}) =>
        /\ IsOk(parsed) /\ parsed.v.tag = "FunctionLiteral"
        /\ Len(parsed.v.kids[2].kids[1].kids) = 1
        /\ parsed.v.kids[2].kids[1].kids[1].kids[2] = None
        /\ parsed.v.kids[2].kids[1].kids[1].kids[3].tag = "Name"
        /\ parsed.v.kids[2].kids[1].kids[1].kids[3].s = text[2]

UnsupportedTags == {"NamespacedName", "Index", "KeyOf"}

\* C7 as stated: printing a tree that contains a Cursor faults when
\* expect_cursors is false and completes when it is true, the Cursor giving
\* no text.
C7_CursorFaultsIffUnexpected ==
    (phase = "printed" /\ HasTag(tree, {"Cursor"})) =>
        /\ printed.st = "Panic" <=> ~settings.expect_cursors
        /\ (tree.tag = "Cursor" /\ settings.expect_cursors) => printed.buf = <<>>

\* C7, amended: printing a tree that contains a Cursor faults when
\* expect_cursors is false; when it is true, printing completes provided the
\* tree has no NamespacedName, Index or KeyOf node, the Cursor giving no text.
C7_CursorFaultsWhenUnexpected ==
    (phase = "printed" /\ HasTag(tree, {"Cursor"})) =>
        /\ ~settings.expect_cursors => printed.st = "Panic"
        /\ (settings.expect_cursors /\ ~HasTag(tree, UnsupportedTags)) => printed.st = "Ok"
        /\ (tree.tag = "Cursor" /\ settings.expect_cursors) => printed.buf = <<>>

C7_Witness ==
    /\ phase = "printed" /\ tree.tag = "Union" /\ HasTag(tree, {"Cursor"})
    /\ settings.expect_cursors /\ printed.st = "Ok" /\ printed.buf # <<>>

\* C8: printing a tree faults if and only if the tree has a NamespacedName,
\* Index or KeyOf node, at any depth, or a Cursor while expect_cursors is
\* false; every other tree is printed to the end.
C8_FaultsIffUnsupported ==
    phase = "printed" =>
        (printed.st = "Panic" <=>
            (HasTag(tree, UnsupportedTags) \/ (HasTag(tree, {"Cursor"}) /\ ~settings.expect_cursors)))

C8_Witness ==
    /\ phase = "printed" /\ printed.st = "Panic" /\ settings.expect_cursors
    /\ tree.tag = "NameWithGenericArguments" /\ HasTag(tree.kids[2], {"KeyOf"}) /\ tree.kids[2].tag # "KeyOf"

\* C9: when `<` follows an atom that is not a name, the parser returns
\* TypeArgumentsNotValidOnReference at that `<` and no tree; when `<` follows
\* a name, the result is a generic instantiation of that name with at least
\* one argument, in source order, spanning from the name to the closing `>`.
C9_GenericArgumentsAfterAtom ==
    phase = "parsed" =>
        /\ text \in NonNameGenericTexts =>
              /\ parsed.st = "Err" /\ parsed.e.kind = "TypeArgumentsNotValidOnReference"
              /\ parsed.e.found = "OpenChevron"
              /\ parsed.e.lo = OffsetOf(text, "<") /\ parsed.e.hi = OffsetOf(text, "<") + 1
              /\ parsed.v = None
        /\ text \in NameGenericTexts \cup DoubleTexts \cup TripleTexts =>
              /\ IsOk(parsed)
              /\ parsed.v.tag = "NameWithGenericArguments" /\ parsed.v.s = text[1]
              /\ Len(parsed.v.kids) >= 1 /\ InSourceOrder(parsed.v.kids)
              /\ parsed.v.lo = 0 /\ parsed.v.hi = TextLen(text)

ConditionalText == <<"T", " ", "extends", " ", "T", " ", "?", " ", "T", " ", ":", " ", "T">>

NewText == <<"new", " ", "(", "a", ":", " ", "T", ")", " ", "=>", " ", "T">>

TemplateText == <<"~", "test-", "${", "X", "}", "~">>

\* <<text, n>>: the parser requires a token after the first n tokens of text
ExhaustionPoints ==
    {<<src, 0>> : src \in TruncatedTexts}
    \cup {<<(<<"string", " ", "|", " ", "number">>), 2>>, <<(<<"A", ".", "B">>), 2>>,
          <<ConditionalText, 4>>, <<ConditionalText, 6>>,
          <<TemplateText, 1>>, <<TemplateText, 2>>, <<TemplateText, 3>>, <<TemplateText, 4>>,
          <<(<<"Array", "<", "string", ">">>), 2>>, <<(<<"Array", "<", "string", ">">>), 3>>,
          <<NewText, 2>>, <<NewText, 4>>, <<NewText, 5>>}

\* C10: when the reader has no token left where the parser requires one (at
\* an atom, after the `.` of a namespaced name, at a conditional branch after
\* `?` or `:`, in a template literal, in a generic argument list, in a
\* parameter list), the parser returns LexError: no panic and no tree.
C10_ExhaustedIsLexError ==
    phase = "parsed" =>
        /\ parsed.st # "Panic"
        /\ <<text, Len(reader.toks)>> \in ExhaustionPoints =>
              parsed.st = "Err" /\ parsed.e.kind = "LexError" /\ parsed.v = None

\* the events of the history that are errors raised
Raised(log) == {i \in DOMAIN log : log[i].ev \notin {"split", "close"}}

\* C11: the first error raised by a nested parse call is the result of the
\* top-level parse: once an error is raised the result is that error and no
\* tree, no second error is raised, and no token is consumed after it.
C11_FirstErrorReturned ==
    phase = "parsed" =>
        /\ Raised(reader.log) # {} => parsed.st = "Err"
        /\ parsed.st = "Err" =>
              /\ parsed.v = None
              /\ Raised(reader.log) = {Len(reader.log)}
              /\ parsed.e.kind = Last(reader.log).ev
              /\ parsed.e.found = Last(reader.log).tok.t
              /\ Span(parsed.e.lo, parsed.e.hi) = Last(reader.log).close
              /\ peek(reader) = Last(reader.log).left

\* an error raised in the second argument of a generic argument list
C11_Witness ==
    /\ phase = "parsed" /\ parsed.st = "Err" /\ parsed.e.kind = "TypeArgumentsNotValidOnReference"
    /\ text = <<"A", "<", "true", "<", "T", ">", ",", " ", "T", ">">>
    /\ Len(reader.log) = 1 /\ reader.pos = 5

\* the index in s of the j-th x of s
NthIndex(s, x, j) ==
    CHOOSE i \in DOMAIN s : s[i] = x /\ Cardinality({k \in 1..i : s[k] = x}) = j

RECURSIVE Unwrapped(_, _)
\* the tree n without its k outermost wrappers
Unwrapped(n, k) == IF k = 0 THEN n ELSE Unwrapped(n.kids[1], k - 1)

NumberOrNullArray == <<"(", "number", " ", "|", " ", "null", ")", "[", "]">>

\* C12: an atom followed by k >= 1 suffixes `[]` or `[<expr>]` parses, all k
\* suffixes consumed, to k nested wrappers, the first suffix innermost: `[]`
\* wraps ArrayLiteral, `[<expr>]` wraps Index with the expression as index,
\* and each wrapper spans from the start of the atom to the end of the `]`
\* of its suffix.
C12_SuffixChain ==
    (phase = "parsed" /\ text \in SuffixTexts \cup {NumberOrNullArray}) =>
        /\ IsOk(parsed) /\ AllConsumed(reader)
        /\ \A j \in 1..Count(text, "[") :
              /\ Unwrapped(parsed.v, Count(text, "[") - j).tag =
                    (IF text[NthIndex(text, "[", j) + 1] = "]" THEN "ArrayLiteral" ELSE "Index")
              /\ Unwrapped(parsed.v, Count(text, "[") - j).lo = 0
              /\ Unwrapped(parsed.v, Count(text, "[") - j).hi = TextLen(SubSeq(text, 1, NthIndex(text, "]", j)))
              /\ Unwrapped(parsed.v, Count(text, "[") - j).tag = "Index" =>
                    /\ Unwrapped(parsed.v, Count(text, "[") - j).kids[2].tag = "Name"
                    /\ Unwrapped(parsed.v, Count(text, "[") - j).kids[2].s = text[NthIndex(text, "[", j) + 1]
                    /\ Unwrapped(parsed.v, Count(text, "[") - j).kids[2].lo =
                          TextLen(SubSeq(text, 1, NthIndex(text, "[", j)))
        /\ Unwrapped(parsed.v, Count(text, "[")).tag \in {"Name", "BooleanLiteral", "ParenthesizedReference"}
        /\ Unwrapped(parsed.v, Count(text, "[")).lo = 0

\* T[K][]: an Index wrapped in an ArrayLiteral
C12_Witness ==
    /\ phase = "parsed" /\ text = <<"T", "[", "K", "]", "[", "]">> /\ IsOk(parsed)
    /\ parsed.v.tag = "ArrayLiteral" /\ parsed.v.kids[1].tag = "Index"

NumberAndNamedString == <<"[", "number", ",", " ", "x", ":", " ", "string", "]">>

\* the members of a tuple literal that carry a name
Named(kids) == {i \in DOMAIN kids : kids[i].kids[1] # None}

\* C13: after `[` the tuple loop gives a TupleLiteral of the comma-separated
\* entries in source order, each with its optional name and its spread flag;
\* the loop ends at `]`, also when `]` follows `[` directly (no element), and
\* the node spans from `[` to `]`.
C13_TupleLiteral ==
    (phase = "parsed" /\ text \in TupleTexts \cup {NumberAndNamedString}) =>
        /\ IsOk(parsed) /\ AllConsumed(reader)
        /\ parsed.v.tag = "TupleLiteral"
        /\ parsed.v.lo = 0 /\ parsed.v.hi = TextLen(text)
        /\ Len(parsed.v.kids) = (IF Len(text) = 2 THEN 0 ELSE Count(text, ",") + 1)
        /\ Cardinality({i \in DOMAIN parsed.v.kids : parsed.v.kids[i].tag = "Spread"}) = Count(text, "...")
        /\ Cardinality(Named(parsed.v.kids)) = Count(text, ":")
        /\ \A i \in DOMAIN parsed.v.kids : parsed.v.kids[i].kids[2].tag = "Name"
        /\ InSourceOrder([i \in DOMAIN parsed.v.kids |-> parsed.v.kids[i].kids[2]])
        /\ text = NumberAndNamedString =>
              /\ parsed.v.kids[1].tag = "NonSpread" /\ parsed.v.kids[1].kids[1] = None
              /\ parsed.v.kids[2].tag = "NonSpread" /\ parsed.v.kids[2].kids[1].kids[1].s = "x"

\* the offset in the text of its first `=>`, the blank before it left out
ArrowOffset(src) == OffsetOf(src, "=>") - 1

IsUnionOrIntersection(n) == n.tag \in {"Union", "Intersection"}

RECURSIVE NestedCallsStop(_)
\* no generic argument and no branch of a conditional of the tree n is itself
\* a union or an intersection
NestedCallsStop(n) ==
    /\ n.tag = "NameWithGenericArguments" => \A i \in DOMAIN n.kids : ~IsUnionOrIntersection(n.kids[i])
    /\ n.tag \in {"Reference", "Infer"} => ~IsUnionOrIntersection(n.kids[1])
    /\ \A i \in DOMAIN n.kids : NestedCallsStop(n.kids[i])

\* C15 as stated: the parse of a generic argument, of a branch of a conditional
\* and of the return type after an atom and `=>` always stops at a `|` or `&`
\* of its own level, so none of them is ever a union or an intersection.
C15_NestedCallsStop ==
    (phase = "parsed" /\ IsOk(parsed)) =>
        /\ NestedCallsStop(parsed.v)
        /\ text \in ArrowSugarTexts => ~IsUnionOrIntersection(parsed.v.kids[3])

T_or(src) == <<"T", " ", "|", " ">> \o src

GenericUnion == <<"A", "<", "T", " ", "|", " ", "T", ">">>

TrueBranchUnion == <<"T", " ", "extends", " ", "T", " ", "?", " ", "T", " ", "|", " ", "T", " ", ":", " ", "T">>

FalseBranchUnion == <<"T", " ", "extends", " ", "T", " ", "?", " ", "T", " ", ":", " ", "T", " ", "|", " ", "T">>

ReturnThenUnion == <<"T", " ", "=>", " ", "T", " ", "|", " ", "T">>

\* C15, amended: the return type after an atom and `=>` is parsed with the
\* flag set whatever the flag of the enclosing call, so it stops at a `|`; a
\* generic argument is parsed with the flag of the enclosing call, so it is a
\* union where the enclosing call takes unions and the list fails at the `|`
\* inside an operand of a union; a branch of a conditional is parsed with the
\* flag unset whatever the flag of the enclosing call, so it takes the `|`
\* and what follows.
C15_FlagOfNestedCalls ==
    phase = "parsed" =>
        /\ text \in ArrowSugarTexts => IsOk(parsed) /\ ~IsUnionOrIntersection(parsed.v.kids[3])
        /\ text = T_or(ReturnThenUnion) =>
              /\ IsOk(parsed) /\ parsed.v.tag = "Union" /\ Len(parsed.v.kids) = 3
              /\ parsed.v.kids[2].tag = "FunctionLiteral" /\ parsed.v.kids[2].kids[3].tag = "Name"
        /\ text = GenericUnion =>
              IsOk(parsed) /\ parsed.v.tag = "NameWithGenericArguments" /\ parsed.v.kids[1].tag = "Union"
        /\ text = T_or(GenericUnion) =>
              /\ parsed.st = "Err" /\ parsed.e.kind = "UnexpectedToken" /\ parsed.e.found = "BitwiseOr"
              /\ parsed.e.lo = 8
        /\ text \in {TrueBranchUnion, FalseBranchUnion} =>
              /\ IsOk(parsed) /\ parsed.v.tag = "Conditional"
              /\ parsed.v.kids[IF text = TrueBranchUnion THEN 2 ELSE 3].kids[1].tag = "Union"
        /\ text \in {T_or(TrueBranchUnion), T_or(FalseBranchUnion)} =>
              /\ IsOk(parsed) /\ parsed.v.tag = "Union" /\ Len(parsed.v.kids) = 2
              /\ parsed.v.kids[2].tag = "Conditional"
              /\ parsed.v.kids[2].kids[IF text = T_or(TrueBranchUnion) THEN 2 ELSE 3].kids[1].tag = "Union"

\* A<T | T>: the argument is the union
C15_Witness ==
    /\ phase = "parsed" /\ text = GenericUnion /\ IsOk(parsed)
    /\ parsed.v.tag = "NameWithGenericArguments" /\ parsed.v.kids[1].tag = "Union"

RECURSIVE MatchingClose(_, _, _)
\* the index in the text of the `)` that closes the `(` before index i, depth
\* being the groups open at i; 0 when there is none
MatchingClose(src, i, depth) ==
    IF i > Len(src) THEN 0
    ELSE IF src[i] = "(" THEN MatchingClose(src, i + 1, depth + 1)
    ELSE IF src[i] = ")" THEN IF depth = 1 THEN i ELSE MatchingClose(src, i + 1, depth - 1)
    ELSE MatchingClose(src, i + 1, depth)

\* what is written after index i of the text, blanks left out
ChunkAfter(src, i) ==
    IF i + 1 <= Len(src) /\ src[i + 1] # " " THEN src[i + 1]
    ELSE IF i + 2 <= Len(src) THEN src[i + 2]
    ELSE ""

RECURSIVE HasNode(_, _, _)
\* the tree n has a node of that tag and span
HasNode(n, tag, sp) == (n.tag = tag /\ SpanOf(n) = sp) \/ \E i \in DOMAIN n.kids : HasNode(n.kids[i], tag, sp)

RECURSIVE HasNodeFrom(_, _)
\* the tree n has a node that starts at that offset
HasNodeFrom(n, lo) == (n.lo = lo /\ n.hi > lo) \/ \E i \in DOMAIN n.kids : HasNodeFrom(n.kids[i], lo)

RECURSIVE HasFunction(_, _)
\* the tree n has a FunctionLiteral without type parameters whose parameter
\* list has that span
HasFunction(n, sp) ==
    \/ n.tag = "FunctionLiteral" /\ n.kids[1] = None /\ SpanOf(n.kids[2]) = sp
    \/ \E i \in DOMAIN n.kids : HasFunction(n.kids[i], sp)

GroupedParameter == <<"(", "a", ":", " ", "(", "T", ")", ")", " ", "=>", " ", "T">>

GroupedFunction == <<"(", "(", "a", ":", " ", "T", ")", " ", "=>", " ", "T", ")">>

\* the texts that start with `(` and have the `)` that closes it
OpenedTexts == {src \in Texts : Len(src) > 0 /\ src[1] = "(" /\ MatchingClose(src, 2, 1) # 0}

\* the offset after the `)` that closes the first `(`
CloseOffset(src) == TextLen(SubSeq(src, 1, MatchingClose(src, 2, 1)))

\* C16: for a text that starts with `(`, what is written after the `)` that
\* closes it decides alone: after `=>` a parse that succeeds gives a
\* FunctionLiteral whose parameter list goes from the `(` to that `)` (the
\* whole tree, or the first operand where the return type stopped at a `|`),
\* and no group is made of the `(`; after anything else a parse that succeeds
\* has the ParenthesizedReference from the `(` to that `)`.  Both are parsed from
\* the token after the `(`, the scan having consumed nothing.
C16_GroupOrFunction ==
    (phase = "parsed" /\ text \in OpenedTexts) =>
        /\ ChunkAfter(text, MatchingClose(text, 2, 1)) = "=>" =>
              /\ ~HasNode(parsed.v, "ParenthesizedReference", Span(0, CloseOffset(text)))
              /\ IsOk(parsed) =>
                    /\ HasFunction(parsed.v, Span(0, CloseOffset(text)))
                    /\ parsed.v.tag \in {"FunctionLiteral", "Union", "Intersection"}
                    /\ text[2] = "a" => HasNode(parsed.v, "VariableField::Name", Span(1, 2))
        /\ (ChunkAfter(text, MatchingClose(text, 2, 1)) # "=>" /\ IsOk(parsed)) =>
              /\ HasNode(parsed.v, "ParenthesizedReference", Span(0, CloseOffset(text)))
              /\ HasNodeFrom(parsed.v, 1)
        /\ text \in {GroupedParameter, GroupedFunction} => IsOk(parsed)

\* (a: (T)) => T: the first `)` does not close the `(`, a function is parsed
C16_Witness ==
    /\ phase = "parsed" /\ text = GroupedParameter /\ IsOk(parsed)
    /\ parsed.v.tag = "FunctionLiteral" /\ SpanOf(parsed.v.kids[2]) = Span(0, 8)

ShiftTokens == {"BitwiseShiftRight", "BitwiseShiftRightUnsigned"}

\* the token `now` is the token `was` split: a `>` that starts one character later
SplitOf(now, was) == was.t \in ShiftTokens /\ now = Token("CloseChevron", "", was.lo + 1, was.hi)

\* C17: after any parse, failed ones included, the tokens of the reader are
\* the tokens the lexer gave, but for the `>>` and `>>>` tokens that the
\* generic argument parser split: each of those came right after the last
\* token of an argument, was upcoming when it was split, and is now a `>`
\* that starts one character later and ends where it ended.  Where a scan
\* looked ahead (a `(`), a parse that succeeds has consumed every token.
C17_OnlySplitChangesTokens ==
    phase = "parsed" =>
        /\ Len(reader.toks) = Len(ReaderOn(text).toks)
        /\ \A i \in DOMAIN reader.toks :
              \/ reader.toks[i] = ReaderOn(text).toks[i]
              \/ /\ SplitOf(reader.toks[i], ReaderOn(text).toks[i])
                 /\ i > 1 /\ ReaderOn(text).toks[i - 1].t \notin {"OpenChevron", "Comma"}
                 /\ \E j \in DOMAIN reader.log :
                       /\ reader.log[j].ev = "split" /\ reader.log[j].tok = ReaderOn(text).toks[i]
                       /\ reader.log[j].left = reader.toks[i]
        /\ \A j \in DOMAIN reader.log :
              reader.log[j].ev = "split" =>
                  \E i \in DOMAIN reader.toks :
                      reader.log[j].tok = ReaderOn(text).toks[i] /\ SplitOf(reader.toks[i], reader.log[j].tok)
        /\ (text \in OpenedTexts /\ IsOk(parsed)) => AllConsumed(reader)

\* A<A<A<T>>>: the `>>>` was split, every other token is as the lexer gave it
C17_Witness ==
    /\ phase = "parsed" /\ text = <<"A", "<", "A", "<", "A", "<", "T", ">", ">", ">">>
    /\ reader.toks[8] = Token("CloseChevron", "", 8, 10)
    /\ ReaderOn(text).toks[8] = Token("BitwiseShiftRightUnsigned", "", 7, 10)
    /\ \A i \in 1..7 : reader.toks[i] = ReaderOn(text).toks[i]

RECURSIVE FlatUnions(_)
\* every union and intersection of the tree n has two members or more, none
\* of them a union or an intersection
FlatUnions(n) ==
    /\ IsUnionOrIntersection(n) =>
          Len(n.kids) >= 2 /\ \A i \in DOMAIN n.kids : ~IsUnionOrIntersection(n.kids[i])
    /\ \A i \in DOMAIN n.kids : FlatUnions(n.kids[i])

\* C18: every Union and Intersection of a tree the parser returns has at
\* least two members and no member that is itself a Union or an
\* Intersection, so its first and its last member exist; `|`-separated
\* operands give one Union of as many members.
C18_FlatUnions ==
    phase = "parsed" =>
        /\ IsOk(parsed) => FlatUnions(parsed.v)
        /\ text \in Repeat({<<"T">>}, <<" ", "|", " ">>, MaxMembers) \ {<<"T">>} =>
              IsOk(parsed) /\ parsed.v.tag = "Union" /\ Len(parsed.v.kids) = Count(text, "T")

\* T | T | T: one union of three names
C18_Witness ==
    /\ phase = "parsed" /\ text = <<"T", " ", "|", " ", "T", " ", "|", " ", "T">> /\ IsOk(parsed)
    /\ parsed.v.tag = "Union" /\ Len(parsed.v.kids) = 3 /\ FlatUnions(parsed.v)

\* C19: on every token stream, one that ends early included, the parser
\* returns a tree or an error; the consumption point is then within the
\* stream or right after its last token, and a parse that succeeds has
\* consumed the first tokens of the stream, one at least.
C19_TreeOrError ==
    phase = "parsed" =>
        /\ parsed.st \in {"Ok", "Err"}
        /\ reader.pos \in 1..(Len(reader.toks) + 1)
        /\ IsOk(parsed) => reader.pos > 1
=============================================================================
